---- MODULE Spec2Model ----
(***************************************************************************)
(* Model of the AI-DEBUG analysis pipeline (src/src/llm_engine):           *)
(* provider gateway, LLMClient retry loop, the staged analyzers and the    *)
(* AnalysisEngine orchestrator.                                            *)
(*                                                                         *)
(* Texts are abstracted by what the code does with them:                   *)
(*   "text_good"      a reply json.loads decodes to the expected object    *)
(*   "text_nonjson"   a reply on which json.loads raises JSONDecodeError   *)
(*   "text_jsonother" a reply that is valid JSON but not an object         *)
(*   ""               the empty string                                     *)
(*   "None"           Python None, the failure signal                      *)
(*   "raised"         an exception leaving the callee                      *)
(***************************************************************************)
EXTENDS Integers, Sequences, FiniteSets, TLC

(* ---------------- bounds of the model ---------------- *)

\* largest max_retries explored by the stand-alone client specification
MaxRetriesBound == 3

\* bounds of the inputs of the cause categorization
MaxComponents == 2
MaxBugs == 2
MaxSecurity == 2

\* bounds of the inputs of the code quality evaluation
MaxComplexity == 12
MaxLogicIssues == 2

\* longest code_changes list of a solution reply
MaxChanges == 2

\* longest error text, in lines, given to the rule-based parsing
MaxLines == 4

\* longest affected_components list given to the severity shaping
MaxAffected == 5

\* most findings of one kind given to the improvement suggestions: syntax,
\* structure, logic and performance issues; bugs and security concerns
MaxAreaIssues == 3
MaxSevereIssues == 6

\* most events in a reply to the log extraction
MaxEvents == 11

(* ---------------- program constants ---------------- *)

\* default of the max_retries parameter of generate_with_retry
DefaultMaxRetries == 2

\* the length above which _generate_improvement_suggestions cuts its list
SuggestionLimit == 10

\* characters of the log text that enter the prompt of the log extraction
PromptLogLimit == 2000

\* fixed-point scale standing for the float scores (1.0 = FloatScale)
FloatScale == 10 * 1000 * 1000

\* 1e-6 on the fixed-point scale
Epsilon == FloatScale \div (1000 * 1000)

\* llm.provider when the configuration names none
DefaultProviderType == "openai"

None == "None"
Pending == "pending"
Raised == "raised"
EmptyText == ""

Texts == {"text_good", "text_nonjson", "text_jsonother"}

\* what the HTTP layer / SDK can do on one provider call
WireEvents ==
  {"net_error", "status_non200", "bad_shape", "null_content", "empty",
   "text_good", "text_nonjson", "text_jsonother"}

FailureEvents == {"net_error", "status_non200", "bad_shape"}

ProviderTypes == {"openai", "azure", "anthropic", "unknown"}
Providers == {"openai", "azure", "anthropic"}

RecognizedKeys == {"error_message", "code_snippet", "problem_description", "log_info"}
OtherKeys == {"attachment"}

\* the six places that call generate_with_retry
LLMSites ==
  {"error_parse", "code_syntax", "code_semantics", "log_extract", "root_cause", "solution"}

ClientSite == "client"

AnalysisKeys == {"error_analysis", "code_analysis", "root_cause", "solution"}

VARIABLES
  provider_type,      \* llm.provider of the configuration
  provider,           \* LLMClient.provider
  sdk_available,      \* OPENAI_SDK_AVAILABLE
  max_retries,        \* max_retries of the running generate_with_retry
  inputs,             \* keys of input_data["inputs"]
  log_empty,          \* log_info.raw_content is the empty string
  error_type_known,   \* rule-based parsing recognises an error type
  reply_has_bugs,     \* the semantic reply lists potential bugs
  analysis_pipeline,  \* AnalysisEngine.analysis_pipeline
  pc,                 \* position of the orchestrator / client
  llm,                \* value generate_with_retry returns (Pending while looping)
  attempt,            \* loop variable of generate_with_retry
  attemptLog,         \* values returned by generate in this invocation
  lastEv,             \* wire event of the last provider call
  called,             \* call sites at which a provider call was made
  siteRes,            \* what generate_with_retry returned per call site
  siteOut,            \* what the call site produced from it
  analyses,           \* result["analyses"]
  components_used,    \* result["metadata"]["components_used"]
  similar_bugs,       \* number of similar bugs found by the lookup
  summary,            \* result["summary"]
  error,              \* result["error"]
  duration_set,       \* analysis_duration_ms was computed
  invoked,            \* stages actually invoked, in order
  gwr_calls,          \* invocations of generate_with_retry per call site
  provider_calls,     \* provider calls made for the request (when metering)
  metering,           \* the provider calls of the request are being counted
  received,           \* arguments analyze passed to RootCause and Solution
  kb_response,        \* what the knowledge base did on the query ("off": not recorded)
  cat_in,             \* integrated_info seen by the categorization
  categories,         \* scores returned by _categorize_potential_causes
  cat_done,           \* the categorization has run
  cq_in,              \* phase outputs seen by _evaluate_code_quality
  cq_score,           \* what _evaluate_code_quality returned
  enh_in,             \* solution reply and context of the fix enhancement
  enh_out,            \* solution after _enhance_solution_quality
  raw_error,          \* lines of the error text given to _rule_based_parsing
  basic_parsed,       \* what _rule_based_parsing returned
  llm_parsed,         \* what _llm_based_parsing returned to parse_error
  parsed_error,       \* result["parsed_error"] of parse_error
  processed,          \* what ErrorMessageProcessor.process returned
  sev_in,             \* arguments of _determine_severity
  severity,           \* what _determine_severity returned
  log_in,             \* log text length and reply given to the log extraction
  key_events,         \* what _extract_key_log_events returned
  sug_in,             \* findings given to _generate_improvement_suggestions
  suggestions,        \* what _generate_improvement_suggestions returned
  req                 \* the requests running concurrently on the shared engine

clientVars == <<provider_type, provider, sdk_available, max_retries>>
requestVars == <<inputs, log_empty, error_type_known, reply_has_bugs, analysis_pipeline>>
retryVars == <<llm, attempt, attemptLog, lastEv>>
siteVars == <<called, siteRes, siteOut>>
resultVars == <<analyses, components_used, similar_bugs, summary, error, duration_set, invoked>>
meterVars == <<gwr_calls, provider_calls, metering, received, kb_response>>
catVars == <<cat_in, categories, cat_done>>
cqVars == <<cq_in, cq_score, sug_in, suggestions>>
enhVars == <<enh_in, enh_out>>
rpVars == <<raw_error, basic_parsed, llm_parsed, parsed_error, processed>>
sevVars == <<sev_in, severity, log_in, key_events>>
concVars == <<req>>

\* everything analyze and generate_with_retry never touch
idleVars == <<catVars, cqVars, enhVars, rpVars, sevVars, concVars>>

\* everything of the pipeline but its position
pipeVars == <<clientVars, requestVars, retryVars, siteVars, resultVars, meterVars>>

vars == <<pipeVars, idleVars, pc>>

(* ======================= provider gateway ======================= *)

\* content field of a 200 payload of the expected shape
content(ev) ==
  CASE ev = "null_content" -> None
    [] ev = "empty" -> EmptyText
    [] OTHER -> ev

\* body of the try block of generate_text: what it returns, or that it raises
generate_text_body(p, sdk, ev) ==
  IF p \in {"openai", "azure"} /\ sdk
    THEN \* SDK path: create() raises on network and status errors,
         \* response.choices[0].message.content raises on a missing part
         IF ev \in FailureEvents
           THEN [raised |-> TRUE, value |-> None]
           ELSE [raised |-> FALSE, value |-> content(ev)]
    ELSE \* requests/httpx path: post() raises on network errors, a non-200
         \* status returns None, a missing key raises
         CASE ev = "net_error" -> [raised |-> TRUE, value |-> None]
           [] ev = "status_non200" -> [raised |-> FALSE, value |-> None]
           [] ev = "bad_shape" -> [raised |-> TRUE, value |-> None]
           [] OTHER -> [raised |-> FALSE, value |-> content(ev)]

generate_text_unguarded(p, sdk, ev) ==
  LET b == generate_text_body(p, sdk, ev)
  IN  IF b.raised THEN Raised ELSE b.value

\* generate_text: try body, except Exception: return None
generate_text(p, sdk, ev) ==
  LET b == generate_text_body(p, sdk, ev)
  IN  IF b.raised THEN None ELSE b.value

\* create_llm_provider: None for an unrecognised provider type
create_llm_provider(ptype) ==
  IF ptype \in Providers THEN ptype ELSE None

\* LLMClient.__init__: OpenAI is the default when no provider was created
LLMClient_init(ptype) ==
  IF create_llm_provider(ptype) = None THEN "openai" ELSE create_llm_provider(ptype)

\* LLMClient.generate
generate(p, sdk, ev) ==
  IF p = None THEN None ELSE generate_text(p, sdk, ev)

(* ======================= resilient client ======================= *)

\* Python truthiness of the value generate returned
Truthy(v) == v \notin {None, EmptyText}

retry_attempts_short(n) == n

retry_attempts_extra(n) == n + 2

\* range(max_retries + 1)
retry_attempts(n) == n + 1

retry_stops_not_none(v) == v # None

\* "if result: return result"
retry_stops(v) == Truthy(v)

\* one iteration of the loop of generate_with_retry, at call site pc
Generate ==
  /\ pc \in LLMSites \cup {ClientSite}
  /\ llm = Pending
  /\ attempt < retry_attempts(max_retries)
  /\ \E ev \in WireEvents :
       LET r == generate(provider, sdk_available, ev)
       IN  /\ lastEv' = ev
           /\ attemptLog' = Append(attemptLog, r)
           /\ called' = called \cup {pc}
           /\ gwr_calls' = IF attempt = 0
                             THEN [gwr_calls EXCEPT ![pc] = @ + 1]
                             ELSE gwr_calls
           /\ provider_calls' = IF metering THEN provider_calls + 1
                                 ELSE provider_calls
           /\ attempt' = attempt + 1
           /\ llm' = IF r = Raised THEN Raised
                     ELSE IF retry_stops(r) THEN r
                     ELSE IF attempt + 1 >= retry_attempts(max_retries) THEN None
                     ELSE Pending
  /\ UNCHANGED <<clientVars, requestVars, siteRes, siteOut, resultVars, metering,
                 received, kb_response, idleVars, pc>>

\* generate_with_retry returns to a caller outside the pipeline
ClientReturn ==
  /\ pc = ClientSite
  /\ llm # Pending
  /\ pc' = "client_done"
  /\ siteRes' = [siteRes EXCEPT ![ClientSite] = llm]
  /\ UNCHANGED <<clientVars, requestVars, retryVars, called, siteOut, resultVars,
                 meterVars, idleVars>>

(* ======================= call sites ======================= *)

\* json.loads on what generate_with_retry returned
json_loads(text) ==
  CASE text = None -> "TypeError"
    [] text = "text_nonjson" -> "JSONDecodeError"
    [] text = "text_jsonother" -> "nondict"
    [] OTHER -> "parsed"

\* ErrorMessageParser._llm_based_parsing, from "analysis_text = ..." on:
\* a falsy text gives {}, JSONDecodeError gives the fallback object
llm_based_parsing(text) ==
  IF text = Raised THEN [raised |-> TRUE, out |-> "raised"]
  ELSE IF ~Truthy(text) THEN [raised |-> FALSE, out |-> "empty"]
  ELSE IF json_loads(text) = "JSONDecodeError" THEN [raised |-> FALSE, out |-> "fallback"]
  ELSE [raised |-> FALSE, out |-> json_loads(text)]

parse_reply_no_fallback(text) ==
  IF text = Raised \/ json_loads(text) \in {"JSONDecodeError", "TypeError"}
    THEN [raised |-> TRUE, out |-> "raised"]
    ELSE [raised |-> FALSE, out |-> json_loads(text)]

\* the try/except of _analyze_syntax, _analyze_semantics,
\* _extract_key_log_events, _deep_causal_analysis and
\* _generate_detailed_solution: only json.JSONDecodeError is caught
parse_reply(text) ==
  IF text = Raised THEN [raised |-> TRUE, out |-> "raised"]
  ELSE IF json_loads(text) = "TypeError" THEN [raised |-> TRUE, out |-> "raised"]
  ELSE IF json_loads(text) = "JSONDecodeError" THEN [raised |-> FALSE, out |-> "fallback"]
  ELSE [raised |-> FALSE, out |-> json_loads(text)]

\* root_cause of the fallback of _deep_causal_analysis ("wu fa que ding")
RootCauseFallback == "cannot_determine"

\* the text _generate_analysis_summary compares with ("wei neng que ding")
SummarySentinel == "undetermined"

\* a root cause named by a decoded reply
RootCauseGood == "null_check_missing"

NoAnalysis == [present |-> FALSE]
NoSummary ==
  [present |-> FALSE, problem_identified |-> FALSE, root_cause_identified |-> FALSE,
   solution_provided |-> FALSE, recommendation |-> "none"]
NoError == [present |-> FALSE, stage |-> "none", site |-> "none"]

StageKey(stage) ==
  CASE stage = "ErrorMessageParser" -> "error_analysis"
    [] stage = "CodeAnalyzer" -> "code_analysis"
    [] stage = "ProblemCauseInferenceModule" -> "root_cause"
    [] stage = "FixSuggestionGenerator" -> "solution"
    [] OTHER -> "none"

\* what parse_error returns, as far as the later stages read it
error_parse_output(out, known) ==
  [present |-> TRUE, llm_fields |-> out, error_type_known |-> known]

\* what analyze_code returns from the two phase outputs
code_analysis_output(syn, sem, bugs) ==
  [present |-> TRUE, syntax |-> syn, semantics |-> sem,
   potential_bugs |-> IF sem = "parsed" /\ bugs THEN 1 ELSE 0]

\* what analyze_root_cause returns: the decoded reply or the fallback of
\* _deep_causal_analysis, through _form_conclusion
root_cause_output(out) ==
  [present |-> TRUE,
   root_cause |-> IF out = "fallback" THEN RootCauseFallback ELSE RootCauseGood,
   causal_chain |-> IF out = "fallback" THEN 0 ELSE 3,
   confidence_level |-> IF out = "fallback" THEN 1 ELSE 8]

\* what generate_solution returns
solution_output(out) ==
  [present |-> TRUE, raw_solution |-> (out = "fallback")]

(* ======================= orchestrator ======================= *)

\* AnalysisEngine.__init__: every stage of the pipeline is enabled
analysis_pipeline_init ==
  [f \in {"error_analysis", "code_analysis", "similar_bugs_lookup",
          "root_cause_analysis", "solution_generation"} |-> TRUE]

ResetRetry ==
  /\ llm' = Pending
  /\ attempt' = 0
  /\ attemptLog' = <<>>
  /\ lastEv' = "none"

except_clears_analyses(an) == [k \in AnalysisKeys |-> NoAnalysis]

\* what the except block of analyze leaves in result["analyses"]
except_keeps_analyses(an) == an

\* an exception reaches "except Exception" of analyze: error is recorded,
\* the duration is computed and the result returned
Fault(stage, site) ==
  /\ error' = [present |-> TRUE, stage |-> stage, site |-> site]
  /\ analyses' = except_keeps_analyses(analyses)
  /\ duration_set' = TRUE
  /\ pc' = "done"
  /\ UNCHANGED <<components_used, similar_bugs, summary, invoked>>

\* a stage returned: its output is stored and the component recorded
StageDone(stage, output, next) ==
  /\ analyses' = [analyses EXCEPT ![StageKey(stage)] = output]
  /\ components_used' = Append(components_used, stage)
  /\ pc' = next
  /\ UNCHANGED <<similar_bugs, summary, error, duration_set, invoked>>

enters_without_flag(key, flag) == key \in inputs

\* the condition of steps 1 and 2 of analyze: the input is present and the
\* flag of the stage is set
enters(key, flag) == key \in inputs /\ analysis_pipeline[flag]

\* step 1 of analyze: gate of the error analysis
EnterErrorParse ==
  /\ pc = "error_gate"
  /\ IF enters("error_message", "error_analysis")
       THEN /\ pc' = "error_parse"
            /\ invoked' = Append(invoked, "ErrorMessageParser")
       ELSE /\ pc' = "code_gate"
            /\ UNCHANGED invoked
  /\ UNCHANGED <<clientVars, requestVars, retryVars, siteVars, meterVars, idleVars,
                 analyses, components_used, similar_bugs, summary, error, duration_set>>

\* parse_error after its model call returned
ErrorParseFinish ==
  /\ pc = "error_parse"
  /\ llm # Pending
  /\ LET r == llm_based_parsing(llm)
     IN  /\ siteRes' = [siteRes EXCEPT !["error_parse"] = llm]
         /\ siteOut' = [siteOut EXCEPT !["error_parse"] = r.out]
         /\ IF r.raised \/ r.out = "nondict"
              THEN Fault("ErrorMessageParser", "error_parse")
              ELSE StageDone("ErrorMessageParser",
                             error_parse_output(r.out, error_type_known),
                             "code_gate")
  /\ ResetRetry
  /\ UNCHANGED <<clientVars, requestVars, called, meterVars, idleVars>>

\* step 2 of analyze: gate of the code analysis
EnterCodeAnalyze ==
  /\ pc = "code_gate"
  /\ IF enters("code_snippet", "code_analysis")
       THEN /\ pc' = "code_syntax"
            /\ invoked' = Append(invoked, "CodeAnalyzer")
       ELSE /\ pc' = "kb_lookup"
            /\ UNCHANGED invoked
  /\ UNCHANGED <<clientVars, requestVars, retryVars, siteVars, meterVars, idleVars,
                 analyses, components_used, similar_bugs, summary, error, duration_set>>

\* _analyze_syntax after its model call returned
SyntaxFinish ==
  /\ pc = "code_syntax"
  /\ llm # Pending
  /\ LET r == parse_reply(llm)
     IN  /\ siteRes' = [siteRes EXCEPT !["code_syntax"] = llm]
         /\ siteOut' = [siteOut EXCEPT !["code_syntax"] = r.out]
         /\ IF r.raised
              THEN Fault("CodeAnalyzer", "code_syntax")
              ELSE /\ pc' = "code_semantics"
                   /\ UNCHANGED resultVars
  /\ ResetRetry
  /\ UNCHANGED <<clientVars, requestVars, called, meterVars, idleVars>>

\* _analyze_semantics after its model call returned, then
\* _combine_analysis_results, which reads both phase outputs as mappings
SemanticsFinish ==
  /\ pc = "code_semantics"
  /\ llm # Pending
  /\ LET r == parse_reply(llm)
     IN  /\ siteRes' = [siteRes EXCEPT !["code_semantics"] = llm]
         /\ siteOut' = [siteOut EXCEPT !["code_semantics"] = r.out]
         /\ IF r.raised
              THEN Fault("CodeAnalyzer", "code_semantics")
              ELSE IF siteOut["code_syntax"] = "nondict"
                THEN Fault("CodeAnalyzer", "code_syntax")
              ELSE IF r.out = "nondict"
                THEN Fault("CodeAnalyzer", "code_semantics")
              ELSE StageDone("CodeAnalyzer",
                             code_analysis_output(siteOut["code_syntax"], r.out,
                                                  reply_has_bugs),
                             "kb_lookup")
  /\ ResetRetry
  /\ UNCHANGED <<clientVars, requestVars, called, meterVars, idleVars>>

KbEvents == {"exception", "status_non200", "ok_no_results", "ok_results"}

query_similar_bugs_status_unchecked(kev) ==
  IF kev \in {"ok_results", "status_non200"} THEN 1 ELSE 0

\* BugKnowledgeBaseClient.query_similar_bugs: number of results returned
query_similar_bugs(kev) == IF kev = "ok_results" THEN 1 ELSE 0

\* step 3 of analyze: similar-bug lookup
SimilarBugLookup ==
  /\ pc = "kb_lookup"
  /\ IF analysis_pipeline["similar_bugs_lookup"]
       THEN \E kev \in KbEvents :
              /\ invoked' = Append(invoked, "BugKnowledgeBaseClient")
              /\ similar_bugs' = query_similar_bugs(kev)
              /\ components_used' =
                   IF query_similar_bugs(kev) > 0
                     THEN Append(components_used, "BugKnowledgeBaseClient")
                     ELSE components_used
              /\ kb_response' = IF kb_response = "off" THEN kb_response ELSE kev
       ELSE UNCHANGED <<invoked, similar_bugs, components_used, kb_response>>
  /\ pc' = "rc_gate"
  /\ UNCHANGED <<clientVars, requestVars, retryVars, siteVars, gwr_calls,
                 provider_calls, metering, received, idleVars,
                 analyses, summary, error, duration_set>>

\* the arguments analyze passes to analyze_root_cause
root_cause_args(an, bugs) ==
  [passed |-> TRUE,
   error_analysis |-> an["error_analysis"],
   code_analysis |-> an["code_analysis"],
   similar_bugs |-> bugs]

solution_args_without_root_cause(an, bugs) ==
  [passed |-> TRUE, root_cause |-> NoAnalysis, similar_bugs |-> bugs]

\* the arguments analyze passes to generate_solution
solution_args(an, bugs) ==
  [passed |-> TRUE, root_cause |-> an["root_cause"], similar_bugs |-> bugs]

extracts_log_events_always(inp, empty) == "log_info" \in inp

\* _preprocess_information reaches the model call of _extract_key_log_events:
\* the request has log_info and "if not log_raw: return []" does not return
extracts_log_events(inp, empty) == "log_info" \in inp /\ ~empty

\* integrated_info["log_data"]["key_events"]: whether the key exists and how
\* many events it lists, given what the extraction site produced
key_log_events(inp, empty, out) ==
  IF "log_info" \notin inp THEN [present |-> FALSE, count |-> 0]
  ELSE IF empty THEN [present |-> TRUE, count |-> 0]
  ELSE IF out = "parsed" THEN [present |-> TRUE, count |-> 1]
  ELSE [present |-> TRUE, count |-> 0]

\* step 4 of analyze: gate of the root cause analysis, then
\* _preprocess_information up to the log extraction
EnterRootCause ==
  /\ pc = "rc_gate"
  /\ IF analysis_pipeline["root_cause_analysis"]
       THEN /\ invoked' = Append(invoked, "ProblemCauseInferenceModule")
            /\ received' = [received EXCEPT !["root_cause"] =
                              root_cause_args(analyses, similar_bugs)]
            /\ pc' = IF extracts_log_events(inputs, log_empty)
                       THEN "log_extract" ELSE "root_cause"
       ELSE /\ pc' = "sol_gate"
            /\ UNCHANGED <<invoked, received>>
  /\ UNCHANGED <<clientVars, requestVars, retryVars, siteVars, gwr_calls,
                 provider_calls, metering, kb_response, idleVars,
                 analyses, components_used, similar_bugs, summary, error, duration_set>>

\* _extract_key_log_events after its model call returned
LogExtractFinish ==
  /\ pc = "log_extract"
  /\ llm # Pending
  /\ LET r == parse_reply(llm)
     IN  /\ siteRes' = [siteRes EXCEPT !["log_extract"] = llm]
         /\ siteOut' = [siteOut EXCEPT !["log_extract"] = r.out]
         /\ IF r.raised
              THEN Fault("ProblemCauseInferenceModule", "log_extract")
              ELSE /\ pc' = "root_cause"
                   /\ UNCHANGED resultVars
  /\ ResetRetry
  /\ UNCHANGED <<clientVars, requestVars, called, meterVars, idleVars>>

\* _deep_causal_analysis after its model call returned, then _form_conclusion
\* (the category scores computed in between only enter the prompt text)
RootCauseFinish ==
  /\ pc = "root_cause"
  /\ llm # Pending
  /\ LET r == parse_reply(llm)
     IN  /\ siteRes' = [siteRes EXCEPT !["root_cause"] = llm]
         /\ siteOut' = [siteOut EXCEPT !["root_cause"] = r.out]
         /\ IF r.raised \/ r.out = "nondict"
              THEN Fault("ProblemCauseInferenceModule", "root_cause")
              ELSE StageDone("ProblemCauseInferenceModule",
                             root_cause_output(r.out), "sol_gate")
  /\ ResetRetry
  /\ UNCHANGED <<clientVars, requestVars, called, meterVars, idleVars>>

\* step 5 of analyze: gate of the solution generation
EnterSolution ==
  /\ pc = "sol_gate"
  /\ IF analysis_pipeline["solution_generation"]
       THEN /\ pc' = "solution"
            /\ invoked' = Append(invoked, "FixSuggestionGenerator")
            /\ received' = [received EXCEPT !["solution"] =
                              solution_args(analyses, similar_bugs)]
       ELSE /\ pc' = "summarize"
            /\ UNCHANGED <<invoked, received>>
  /\ UNCHANGED <<clientVars, requestVars, retryVars, siteVars, gwr_calls,
                 provider_calls, metering, kb_response, idleVars,
                 analyses, components_used, similar_bugs, summary, error, duration_set>>

\* _generate_detailed_solution after its model call returned, then
\* _enhance_solution_quality
SolutionFinish ==
  /\ pc = "solution"
  /\ llm # Pending
  /\ LET r == parse_reply(llm)
     IN  /\ siteRes' = [siteRes EXCEPT !["solution"] = llm]
         /\ siteOut' = [siteOut EXCEPT !["solution"] = r.out]
         /\ IF r.raised \/ r.out = "nondict"
              THEN Fault("FixSuggestionGenerator", "solution")
              ELSE StageDone("FixSuggestionGenerator",
                             solution_output(r.out), "summarize")
  /\ ResetRetry
  /\ UNCHANGED <<clientVars, requestVars, called, meterVars, idleVars>>

\* the root cause check of _generate_analysis_summary
root_cause_identified(an) ==
  an["root_cause"].present /\ an["root_cause"].root_cause # SummarySentinel

generate_analysis_summary_missing(an) == NoSummary

generate_analysis_summary_root_cause_first(an) ==
  LET problem == \/ (an["error_analysis"].present /\ an["error_analysis"].error_type_known)
                 \/ (an["code_analysis"].present /\ an["code_analysis"].potential_bugs > 0)
      rootc == root_cause_identified(an)
      sol == an["solution"].present /\ ~an["solution"].raw_solution
  IN  [present |-> TRUE,
       problem_identified |-> problem,
       root_cause_identified |-> rootc,
       solution_provided |-> sol,
       recommendation |-> IF rootc THEN "root_cause_identified"
                          ELSE IF sol THEN "apply_solution"
                          ELSE IF problem THEN "problem_identified"
                          ELSE "manual_review"]

\* AnalysisEngine._generate_analysis_summary
generate_analysis_summary(an) ==
  LET problem == \/ (an["error_analysis"].present /\ an["error_analysis"].error_type_known)
                 \/ (an["code_analysis"].present /\ an["code_analysis"].potential_bugs > 0)
      rootc == root_cause_identified(an)
      sol == an["solution"].present /\ ~an["solution"].raw_solution
  IN  [present |-> TRUE,
       problem_identified |-> problem,
       root_cause_identified |-> rootc,
       solution_provided |-> sol,
       recommendation |-> IF sol THEN "apply_solution"
                          ELSE IF rootc THEN "root_cause_identified"
                          ELSE IF problem THEN "problem_identified"
                          ELSE "manual_review"]

\* step 6 of analyze: summary, then the duration and the return
Summarize ==
  /\ pc = "summarize"
  /\ summary' = generate_analysis_summary(analyses)
  /\ invoked' = Append(invoked, "Summary")
  /\ duration_set' = TRUE
  /\ pc' = "done"
  /\ UNCHANGED <<clientVars, requestVars, retryVars, siteVars, meterVars, idleVars,
                 analyses, components_used, similar_bugs, error>>

(* ======================= cause categorization ======================= *)

\* integrated_info as far as _categorize_potential_causes reads it: which
\* error names occur in the raw error text, how many affected components
\* and bugs fall in each class, how many security concerns there are
CatInputs ==
  { ci \in [has_error : BOOLEAN, type_or_value : BOOLEAN, index_or_key : BOOLEAN,
            permission_or_connection : BOOLEAN, syntax_or_import : BOOLEAN,
            data_components : 0..MaxComponents, system_components : 0..MaxComponents,
            has_code : BOOLEAN,
            data_bugs : 0..MaxBugs, logic_bugs : 0..MaxBugs, code_bugs : 0..MaxBugs,
            security : 0..MaxSecurity] :
      /\ (~ci.has_error =>
            /\ ~ci.type_or_value /\ ~ci.index_or_key
            /\ ~ci.permission_or_connection /\ ~ci.syntax_or_import
            /\ ci.data_components = 0 /\ ci.system_components = 0)
      /\ (~ci.has_code =>
            /\ ci.data_bugs = 0 /\ ci.logic_bugs = 0 /\ ci.code_bugs = 0
            /\ ci.security = 0) }

NoCatInput ==
  [has_error |-> FALSE, type_or_value |-> FALSE, index_or_key |-> FALSE,
   permission_or_connection |-> FALSE, syntax_or_import |-> FALSE,
   data_components |-> 0, system_components |-> 0, has_code |-> FALSE,
   data_bugs |-> 0, logic_bugs |-> 0, code_bugs |-> 0, security |-> 0]

NoCategories ==
  [data_issues |-> 0, logic_issues |-> 0, system_issues |-> 0, code_issues |-> 0]

B(b) == IF b THEN 1 ELSE 0

\* the raw increments, in units of 0.05
raw_scores(ci) ==
  [data_issues |->
     IF ci.has_error
       THEN 6 * B(ci.type_or_value) + 4 * B(ci.index_or_key) + 4 * ci.data_components
       ELSE 0,
   logic_issues |-> IF ci.has_error THEN 6 * B(ci.index_or_key) ELSE 0,
   system_issues |->
     IF ci.has_error
       THEN 8 * B(ci.permission_or_connection) + 4 * ci.system_components
       ELSE 0,
   code_issues |-> IF ci.has_error THEN 8 * B(ci.syntax_or_import) ELSE 0]

bug_scores(ci) ==
  [data_issues |-> IF ci.has_code THEN 3 * ci.data_bugs ELSE 0,
   logic_issues |-> IF ci.has_code THEN 3 * ci.logic_bugs ELSE 0,
   system_issues |-> IF ci.has_code THEN 2 * ci.security ELSE 0,
   code_issues |-> IF ci.has_code THEN 3 * ci.code_bugs + ci.security ELSE 0]

CatNames == {"data_issues", "logic_issues", "system_issues", "code_issues"}

unnormalized(ci) == [c \in CatNames |-> raw_scores(ci)[c] + bug_scores(ci)[c]]

cat_total(sc) ==
  sc["data_issues"] + sc["logic_issues"] + sc["system_issues"] + sc["code_issues"]

normalize_by_max(sc) ==
  LET m == CHOOSE x \in {sc[c] : c \in CatNames} : \A c \in CatNames : sc[c] <= x
  IN  IF cat_total(sc) > 0
        THEN [c \in CatNames |-> (sc[c] * FloatScale) \div m]
        ELSE [c \in CatNames |-> FloatScale \div 4]

\* "total = sum(...); if total > 0: divide each by total; else 0.25 each"
normalize(sc) ==
  IF cat_total(sc) > 0
    THEN [c \in CatNames |-> (sc[c] * FloatScale) \div cat_total(sc)]
    ELSE [c \in CatNames |-> FloatScale \div 4]

\* ProblemCauseInferenceModule._categorize_potential_causes
categorize_potential_causes(ci) == normalize(unnormalized(ci))

\* the categorization step applied to cat_in
Categorize ==
  /\ pc = "categorize"
  /\ ~cat_done
  /\ categories' = categorize_potential_causes(cat_in)
  /\ cat_done' = TRUE
  /\ pc' = "categorized"
  /\ UNCHANGED <<pipeVars, cat_in, cqVars, enhVars, rpVars, sevVars, concVars>>

(* ======================= code quality ======================= *)

\* the two phase outputs as far as _evaluate_code_quality reads them:
\* complexity_score, structure_quality, the three style entries, and the
\* numbers of logic issues, bugs and security concerns with those of
\* severity "high" among the logic issues and security concerns
CqInputs ==
  { q \in [complexity : (0 - MaxComplexity)..MaxComplexity,
            structure_quality : {"good", "fair", "poor", "unassessed"},
            naming : BOOLEAN, indentation : BOOLEAN, comments : BOOLEAN,
            logic_issues : 0..MaxLogicIssues, severe_logic : 0..MaxLogicIssues,
            bugs : 0..MaxBugs,
            security : 0..MaxSecurity, severe_security : 0..MaxSecurity] :
      /\ q.severe_logic <= q.logic_issues
      /\ q.severe_security <= q.security }

\* the fallbacks of both phases: complexity 5, nothing assessed, no findings
NoCqInput ==
  [complexity |-> 5, structure_quality |-> "unassessed",
   naming |-> FALSE, indentation |-> FALSE, comments |-> FALSE,
   logic_issues |-> 0, severe_logic |-> 0, bugs |-> 0,
   security |-> 0, severe_security |-> 0]

quality_tenths_issues_rewarded(q) ==
  50 - 3 * (q.complexity - 5)
     + (CASE q.structure_quality = "good" -> 10
          [] q.structure_quality = "poor" -> 0 - 10
          [] OTHER -> 0)
     + 5 * B(q.naming) + 5 * B(q.indentation) + 5 * B(q.comments)
     - 8 * (q.severe_logic + q.severe_security)
     + 2 * (q.logic_issues + q.bugs + q.security)

\* the score before rounding, in tenths
quality_tenths(q) ==
  50 - 3 * (q.complexity - 5)
     + (CASE q.structure_quality = "good" -> 10
          [] q.structure_quality = "poor" -> 0 - 10
          [] OTHER -> 0)
     + 5 * B(q.naming) + 5 * B(q.indentation) + 5 * B(q.comments)
     - 8 * (q.severe_logic + q.severe_security)
     - 2 * (q.logic_issues + q.bugs + q.security)

\* round() of a value given in tenths: to the nearest integer, a tie to the
\* even one (the binary representation of the float can move a tie to either
\* neighbour, never further)
round_tenths(t) ==
  LET q == t \div 10
      r == t % 10
  IN  IF r < 5 THEN q
      ELSE IF r > 5 THEN q + 1
      ELSE IF q % 2 = 0 THEN q ELSE q + 1

clamp_none(x) == x

\* max(1, min(10, x))
clamp(x) ==
  LET m == IF x < 10 THEN x ELSE 10
  IN  IF m > 1 THEN m ELSE 1

\* CodeAnalyzer._evaluate_code_quality
evaluate_code_quality(q) == clamp(round_tenths(quality_tenths(q)))

\* the evaluation applied to cq_in
EvaluateCodeQuality ==
  /\ pc = "evaluate"
  /\ cq_score' = evaluate_code_quality(cq_in)
  /\ pc' = "evaluated"
  /\ UNCHANGED <<pipeVars, catVars, cq_in, sug_in, suggestions, enhVars, rpVars,
                 sevVars, concVars>>

\* the numbers of findings in the two phase outputs, and the language
SugInputs ==
  [syntax : 0..MaxAreaIssues, structure : 0..MaxAreaIssues,
   logic : 0..MaxAreaIssues, performance : 0..MaxAreaIssues,
   bugs : 0..MaxSevereIssues, security : 0..MaxSevereIssues,
   language : {"python", "other"}]

NoSugInput ==
  [syntax |-> 0, structure |-> 0, logic |-> 0, performance |-> 0,
   bugs |-> 0, security |-> 0, language |-> "other"]

\* one loop of _generate_improvement_suggestions: a suggestion per finding
area_suggestions(area, n) == [i \in 1..n |-> [area |-> area, finding |-> i]]

\* CodeAnalyzer._get_language_specific_suggestions
get_language_specific_suggestions(language) ==
  IF language \in {"python", "javascript", "java"}
    THEN area_suggestions("best_practice", 2)
    ELSE <<>>

\* the list before the limit: the six loops and the language suggestions
collected_suggestions(g) ==
  area_suggestions("syntax", g.syntax) \o area_suggestions("structure", g.structure)
    \o area_suggestions("logic", g.logic) \o area_suggestions("bug_fix", g.bugs)
    \o area_suggestions("performance", g.performance)
    \o area_suggestions("security", g.security)
    \o get_language_specific_suggestions(g.language)

take_all(seq, k) == seq

\* seq[:k] for k >= 0
take(seq, k) == SubSeq(seq, 1, IF k < Len(seq) THEN k ELSE Len(seq))

\* CodeAnalyzer._generate_improvement_suggestions
generate_improvement_suggestions(g) ==
  LET all == collected_suggestions(g)
      security_suggestions == SelectSeq(all, LAMBDA x : x.area = "security")
      bug_suggestions == SelectSeq(all, LAMBDA x : x.area = "bug_fix")
      other_suggestions == SelectSeq(all, LAMBDA x : x.area \notin {"security", "bug_fix"})
      room == SuggestionLimit - Len(security_suggestions) - Len(bug_suggestions)
  IN  IF Len(all) > SuggestionLimit
        THEN security_suggestions \o bug_suggestions
               \o take(other_suggestions, IF room > 0 THEN room ELSE 0)
        ELSE all

\* the suggestions generated for sug_in
GenerateImprovementSuggestions ==
  /\ pc = "suggest"
  /\ suggestions' = generate_improvement_suggestions(sug_in)
  /\ pc' = "suggested"
  /\ UNCHANGED <<pipeVars, catVars, cq_in, cq_score, sug_in, enhVars, rpVars,
                 sevVars, concVars>>

(* ======================= fix enhancement ======================= *)

\* a key the reply does not have
Absent == "<absent>"

\* a list-valued key the reply does not have
AbsentList == <<Absent>>

\* dict.get(key, default)
get(v, default) == IF v = Absent THEN default ELSE v

\* the code texts of the model: empty, blank, a text, the same text with
\* surrounding blanks, another text
CodeTexts == {"", " ", "a", " a ", "b"}

\* str.strip()
strip(t) ==
  CASE t = " " -> ""
    [] t = " a " -> "a"
    [] OTHER -> t

\* one entry of code_changes as the reply gives it, without its file and
\* explanation (a missing file is given a default like a missing text)
ReplyChanges ==
  [file : {Absent},
   original_code : CodeTexts \cup {Absent},
   fixed_code : CodeTexts \cup {Absent}]

ChangeLists ==
  UNION { [1..n -> ReplyChanges] : n \in 0..MaxChanges }

ReplyStep == [n |-> 0, file |-> "reply_step"]

\* the solutions a decoded reply can hold
ReplySolutions ==
  [raw_solution : {Absent},
   code_changes : ChangeLists,
   fix_steps : {<<>>, <<ReplyStep>>},
   prevention_tips : {<<>>, <<"reply_tip">>},
   alternative_solutions : {AbsentList, <<>>, <<"reply_alternative">>}]

\* problem types of the context the model distinguishes
EnhProblemTypes == {"data_issues", "unclassified"}

\* what the solution call returned, and the problem type of the context
EnhInputs ==
  [reply : [kind : {"text_good"}, solution : ReplySolutions]
             \cup {[kind |-> "text_nonjson"]},
   problem_type : EnhProblemTypes]

NoSolution ==
  [raw_solution |-> Absent, code_changes |-> <<>>, fix_steps |-> <<>>,
   prevention_tips |-> <<>>, alternative_solutions |-> AbsentList]

NoEnhInput ==
  [reply |-> [kind |-> "text_good", solution |-> NoSolution],
   problem_type |-> "unclassified"]

\* the except branch of _generate_detailed_solution
solution_fallback(text) ==
  [raw_solution |-> text, code_changes |-> <<>>, fix_steps |-> <<>>,
   prevention_tips |-> <<>>, alternative_solutions |-> <<>>]

\* _generate_detailed_solution from "solution = json.loads(...)" on
generate_detailed_solution(reply) ==
  IF reply.kind = "text_nonjson"
    THEN solution_fallback(reply.kind)
    ELSE reply.solution

\* the entry with every field present
enhanced_change(c) ==
  [file |-> get(c.file, "unspecified_file"),
   original_code |-> get(c.original_code, ""),
   fixed_code |-> get(c.fixed_code, "")]

meaningful_unstripped(c) ==
  /\ c.original_code # ""
  /\ c.fixed_code # ""
  /\ c.original_code # c.fixed_code

\* "if original and fixed and original != fixed" on the stripped texts
meaningful(c) ==
  /\ strip(c.original_code) # ""
  /\ strip(c.fixed_code) # ""
  /\ strip(c.original_code) # strip(c.fixed_code)

\* the loop over code_changes
enhanced_code_changes(changes) ==
  SelectSeq([i \in 1..Len(changes) |-> enhanced_change(changes[i])], meaningful)

\* the steps generated from the kept changes when the reply has none
generated_fix_steps(changes) ==
  [i \in 1..Len(changes) |-> [n |-> i, file |-> changes[i].file]]

\* the generic prevention tips per problem type
generic_prevention_tips(pt) ==
  CASE pt = "data_issues" -> <<"tips_data">>
    [] pt = "logic_issues" -> <<"tips_logic">>
    [] pt = "system_issues" -> <<"tips_system">>
    [] pt = "code_issues" -> <<"tips_code">>
    [] OTHER -> <<"tips_general">>

\* FixSuggestionGenerator._generate_alternative_solutions
generate_alternative_solutions(pt) ==
  CASE pt = "data_issues" -> <<"alternatives_data">>
    [] pt = "logic_issues" -> <<"alternatives_logic">>
    [] pt = "system_issues" -> <<"alternatives_system">>
    [] pt = "code_issues" -> <<"alternatives_code">>
    [] OTHER -> <<"alternatives_general">>

\* the body of _enhance_solution_quality after the raw_solution test
enhance_body(sol, pt) ==
  LET changes == enhanced_code_changes(sol.code_changes)
  IN  [raw_solution |-> sol.raw_solution,
       code_changes |-> changes,
       fix_steps |-> IF sol.fix_steps = <<>>
                       THEN generated_fix_steps(changes) ELSE sol.fix_steps,
       prevention_tips |-> IF sol.prevention_tips = <<>>
                             THEN generic_prevention_tips(pt)
                             ELSE sol.prevention_tips,
       alternative_solutions |->
         IF sol.alternative_solutions = AbsentList \/ sol.alternative_solutions = <<>>
           THEN generate_alternative_solutions(pt)
           ELSE sol.alternative_solutions]

enhance_always(sol, pt) == enhance_body(sol, pt)

\* FixSuggestionGenerator._enhance_solution_quality
enhance_solution_quality(sol, pt) ==
  IF sol.raw_solution # Absent THEN sol ELSE enhance_body(sol, pt)

\* steps 3 and 4 of generate_solution, after the model call returned
EnhanceSolution ==
  /\ pc = "enhance"
  /\ enh_out' = enhance_solution_quality(generate_detailed_solution(enh_in.reply),
                                         enh_in.problem_type)
  /\ pc' = "enhanced"
  /\ UNCHANGED <<pipeVars, catVars, cqVars, enh_in, rpVars, sevVars, concVars>>

\* the enhancement applied to its own output, with the same context
EnhanceAgain ==
  /\ pc = "enhanced"
  /\ enh_out' = enhance_solution_quality(enh_out, enh_in.problem_type)
  /\ pc' = "enhanced_again"
  /\ UNCHANGED <<pipeVars, catVars, cqVars, enh_in, rpVars, sevVars, concVars>>

(* ======================= rule-based error parsing ======================= *)

\* the lines an error text of the model is made of
HeaderLine ==
  [kind |-> "traceback_header", name |-> Absent, msg |-> FALSE,
   file |-> Absent, line |-> Absent, function |-> Absent]
ModuleFrameLine ==
  [kind |-> "frame", name |-> Absent, msg |-> FALSE,
   file |-> "app.py", line |-> "42", function |-> "<module>"]
ProcessDataFrameLine ==
  [kind |-> "frame", name |-> Absent, msg |-> FALSE,
   file |-> "app.py", line |-> "21", function |-> "process_data"]
CodeLine ==
  [kind |-> "code", name |-> Absent, msg |-> FALSE,
   file |-> Absent, line |-> Absent, function |-> Absent]
ZeroDivisionLine ==
  [kind |-> "error", name |-> "ZeroDivisionError", msg |-> TRUE,
   file |-> Absent, line |-> Absent, function |-> Absent]
ZeroDivisionBareLine ==
  [kind |-> "error", name |-> "ZeroDivisionError", msg |-> FALSE,
   file |-> Absent, line |-> Absent, function |-> Absent]
TypeErrorLine ==
  [kind |-> "error", name |-> "TypeError", msg |-> TRUE,
   file |-> Absent, line |-> Absent, function |-> Absent]
\* "TypeError: ... at processData (/app/src/utils.js:25:10)"
JsErrorAtLine ==
  [kind |-> "js_error_at", name |-> "TypeError", msg |-> TRUE,
   file |-> "/app/src/utils.js", line |-> "25", function |-> "processData"]
\* "    at handleClick (/app/src/app.js:10:10)"
JsFrameLine ==
  [kind |-> "js_frame", name |-> Absent, msg |-> FALSE,
   file |-> "/app/src/app.js", line |-> "10", function |-> "handleClick"]

ErrorLines ==
  {HeaderLine, ModuleFrameLine, ProcessDataFrameLine, CodeLine,
   ZeroDivisionLine, ZeroDivisionBareLine, TypeErrorLine, JsErrorAtLine,
   JsFrameLine}

\* the kinds of line that hold "at <function> (<file>:<line>:<column>)"
JsFrameKinds == {"js_error_at", "js_frame"}

ErrorTexts == UNION { [1..n -> ErrorLines] : n \in 0..MaxLines }

\* int() of the digits the model's lines hold
int(digits) ==
  CASE digits = "42" -> 42
    [] digits = "21" -> 21
    [] digits = "25" -> 25
    [] digits = "10" -> 10
    [] OTHER -> 0

\* pattern in raw_error, for an error name
contains_name(text, n) == \E i \in 1..Len(text) : text[i].name = n

\* self.error_patterns in iteration order
error_patterns ==
  << [language |-> "python", error_type |-> "syntax", pattern |-> "SyntaxError"],
     [language |-> "python", error_type |-> "type", pattern |-> "TypeError"],
     [language |-> "python", error_type |-> "name", pattern |-> "NameError"],
     [language |-> "python", error_type |-> "attribute", pattern |-> "AttributeError"],
     [language |-> "python", error_type |-> "index", pattern |-> "IndexError"],
     [language |-> "python", error_type |-> "key", pattern |-> "KeyError"],
     [language |-> "python", error_type |-> "value", pattern |-> "ValueError"],
     [language |-> "python", error_type |-> "import", pattern |-> "ImportError"],
     [language |-> "python", error_type |-> "zero_division", pattern |-> "ZeroDivisionError"],
     [language |-> "python", error_type |-> "assertion", pattern |-> "AssertionError"],
     [language |-> "python", error_type |-> "runtime", pattern |-> "RuntimeError"],
     [language |-> "python", error_type |-> "indentation", pattern |-> "IndentationError"],
     [language |-> "javascript", error_type |-> "syntax", pattern |-> "SyntaxError"],
     [language |-> "javascript", error_type |-> "type", pattern |-> "TypeError"],
     [language |-> "javascript", error_type |-> "reference", pattern |-> "ReferenceError"],
     [language |-> "javascript", error_type |-> "range", pattern |-> "RangeError"],
     [language |-> "javascript", error_type |-> "uri", pattern |-> "URIError"],
     [language |-> "javascript", error_type |-> "eval", pattern |-> "EvalError"],
     [language |-> "javascript", error_type |-> "internal", pattern |-> "InternalError"],
     [language |-> "java", error_type |-> "null_pointer", pattern |-> "NullPointerException"],
     [language |-> "java", error_type |-> "class_cast", pattern |-> "ClassCastException"],
     [language |-> "java", error_type |-> "index_out_of_bounds",
      pattern |-> "IndexOutOfBoundsException"],
     [language |-> "java", error_type |-> "arithmetic", pattern |-> "ArithmeticException"],
     [language |-> "java", error_type |-> "illegal_argument",
      pattern |-> "IllegalArgumentException"],
     [language |-> "java", error_type |-> "io", pattern |-> "IOException"] >>

UnknownType == "unknown"

NoLocation == [empty |-> TRUE]

NoParsed ==
  [error_type |-> UnknownType, error_language |-> UnknownType,
   stack_trace |-> <<>>, error_location |-> NoLocation,
   error_message |-> "raw_error"]

\* the first loop: the first pattern, in iteration order, found in the text
pattern_match(text) ==
  LET hits == { i \in 1..Len(error_patterns) :
                  contains_name(text, error_patterns[i].pattern) }
  IN  IF hits = {} THEN 0
      ELSE CHOOSE i \in hits : \A j \in hits : i <= j

\* re.findall of the Python frame pattern
python_stack(text) ==
  LET frames == SelectSeq(text, LAMBDA l : l.kind = "frame")
  IN  [i \in 1..Len(frames) |->
         [file |-> frames[i].file, line |-> int(frames[i].line),
          function |-> frames[i].function]]

\* re.search of "<name>Error: <message>" up to the end of a line
python_error_match(text) ==
  LET hits == { i \in 1..Len(text) : text[i].name # Absent /\ text[i].msg }
  IN  IF hits = {} THEN 0
      ELSE CHOOSE i \in hits : \A j \in hits : i <= j

\* re.search of "<name>Error" with something after it, which may be the
\* next line
js_error_match(text) ==
  LET hits == { i \in 1..Len(text) :
                  text[i].name # Absent /\ (text[i].msg \/ i < Len(text)) }
  IN  IF hits = {} THEN 0
      ELSE CHOOSE i \in hits : \A j \in hits : i <= j

\* re.findall of the JavaScript frame pattern
js_stack(text) ==
  LET frames == SelectSeq(text, LAMBDA l : l.kind \in JsFrameKinds)
  IN  [i \in 1..Len(frames) |->
         [function |-> frames[i].function, file |-> frames[i].file,
          line |-> int(frames[i].line), column |-> 10]]

location_first_as_last(stack) == IF stack = <<>> THEN NoLocation ELSE stack[Len(stack)]

\* "if stack_trace: result['error_location'] = stack_trace[0]"
location_first(stack) == IF stack = <<>> THEN NoLocation ELSE stack[1]

location_last_as_first(stack) == IF stack = <<>> THEN NoLocation ELSE stack[1]

\* "if stack_trace: result['error_location'] = stack_trace[-1]"
location_last(stack) == IF stack = <<>> THEN NoLocation ELSE stack[Len(stack)]

\* ErrorMessageParser._rule_based_parsing
rule_based_parsing(text) ==
  LET p == pattern_match(text)
      by_pattern ==
        [NoParsed EXCEPT
           !.error_type = IF p = 0 THEN UnknownType ELSE error_patterns[p].error_type,
           !.error_language = IF p = 0 THEN UnknownType ELSE error_patterns[p].language]
      pm == python_error_match(text)
      jm == js_error_match(text)
  IN  IF \E i \in 1..Len(text) : text[i].kind = "traceback_header"
        THEN [error_type |-> IF pm = 0 THEN by_pattern.error_type ELSE text[pm].name,
              error_language |-> "python",
              stack_trace |-> python_stack(text),
              error_location |-> location_last(python_stack(text)),
              error_message |-> IF pm = 0 THEN "raw_error" ELSE "matched_message"]
      ELSE IF /\ \E i \in 1..Len(text) : text[i].kind \in JsFrameKinds
              /\ (contains_name(text, "TypeError") \/ contains_name(text, "ReferenceError"))
        THEN [error_type |-> IF jm = 0 THEN by_pattern.error_type ELSE text[jm].name,
              error_language |-> "javascript",
              stack_trace |-> js_stack(text),
              error_location |-> location_first(js_stack(text)),
              error_message |-> IF jm = 0 THEN "raw_error" ELSE "matched_message"]
      ELSE by_pattern

\* the parsing applied to raw_error
RuleBasedParse ==
  /\ pc = "rule_parse"
  /\ basic_parsed' = rule_based_parsing(raw_error)
  /\ pc' = "rule_parsed"
  /\ UNCHANGED <<pipeVars, catVars, cqVars, enhVars, raw_error, llm_parsed,
                 parsed_error, processed, sevVars, concVars>>

\* keys the model returns in its reply; the first two are also rule-based keys
LlmKeys == {"error_type", "error_language", "severity", "root_cause_summary"}

\* the object _llm_based_parsing returns when the reply is not JSON
LlmFallback ==
  [k \in {"root_cause_summary", "severity", "affected_components",
          "common_triggers", "environmental_factors", "relevant_variables",
          "raw_analysis"} |-> "fallback_value"]

\* the mappings _llm_based_parsing can return: the decoded reply with any of
\* the keys ({} for an empty reply), or the fallback object
LlmParsed == {[k \in K |-> "from_llm"] : K \in SUBSET LlmKeys} \cup {LlmFallback}

\* the error texts given to parse_error
ParseErrorTexts == {t \in ErrorTexts : Len(t) <= 2}

merge_basic_wins(basic, reply) ==
  [k \in DOMAIN basic \cup DOMAIN reply |->
     IF k \in DOMAIN basic THEN basic[k] ELSE reply[k]]

\* {**basic_parsed, **llm_parsed}
merge(basic, reply) ==
  [k \in DOMAIN basic \cup DOMAIN reply |->
     IF k \in DOMAIN reply THEN reply[k] ELSE basic[k]]

\* step 3 of parse_error, after both parsings returned
MergeParsed ==
  /\ pc = "rule_parsed"
  /\ parsed_error' = merge(basic_parsed, llm_parsed)
  /\ pc' = "error_parsed"
  /\ UNCHANGED <<pipeVars, catVars, cqVars, enhVars, raw_error, basic_parsed,
                 llm_parsed, processed, sevVars, concVars>>

(* ======================= input layer ======================= *)

\* "<word> in error_message": of the model's lines only the error lines hold
\* a word that contains one of the four, namely their error name
mentions(text, word) == \E i \in 1..Len(text) : text[i].name = word

\* the if/elif chain of ErrorMessageProcessor.process
category(text) ==
  IF mentions(text, "Syntax") THEN "syntax_error"
  ELSE IF mentions(text, "TypeError") THEN "type_error"
  ELSE IF mentions(text, "ReferenceError") THEN "reference_error"
  ELSE IF mentions(text, "Exception") THEN "exception"
  ELSE "unknown_error"

\* re.search of 'line (\d+)' and of 'File "<name>"': the leftmost match, which
\* in the model's lines is the first frame line (0: no match)
re_search(text) ==
  LET hits == {i \in 1..Len(text) : text[i].kind = "frame"}
  IN  IF hits = {} THEN 0
      ELSE CHOOSE i \in hits : \A j \in hits : i <= j

NoProcessed ==
  [raw_content |-> <<>>, category |-> "unset", line |-> 0, file |-> Absent]

\* ErrorMessageProcessor.process; line 0 stands for a missing "line" key
process(text) ==
  [raw_content |-> text,
   category |-> category(text),
   line |-> IF re_search(text) = 0 THEN 0 ELSE int(text[re_search(text)].line),
   file |-> IF re_search(text) = 0 THEN Absent ELSE text[re_search(text)].file]

\* the input layer processes raw_error
ProcessErrorMessage ==
  /\ pc = "process"
  /\ processed' = process(raw_error)
  /\ pc' = "processed"
  /\ UNCHANGED <<pipeVars, catVars, cqVars, enhVars, raw_error, basic_parsed,
                 llm_parsed, parsed_error, sevVars, concVars>>

(* ======================= severity shaping ======================= *)

\* component names of the model; the second contains the word "database"
ComponentNames == {"ui_module", "user_database"}

\* any(core in comp.lower() for core in core_components)
is_core(comp) == comp = "user_database"

\* the classes of severity words an error text can hold
SeverityWords == {"critical", "high", "low"}

\* arguments of _determine_severity: whether the request has an
\* error_message, which classes of severity words its text holds, and the
\* affected components of the root cause
SevInputs ==
  { a \in [has_error : BOOLEAN, words : SUBSET SeverityWords,
            affected_components :
              UNION { [1..n -> ComponentNames] : n \in 0..MaxAffected }] :
      ~a.has_error => a.words = {} }

NoSevInput == [has_error |-> FALSE, words |-> {}, affected_components |-> <<>>]

\* the severity after the look at the error text
base_severity(a) ==
  IF ~a.has_error THEN "medium"
  ELSE IF "critical" \in a.words THEN "high"
  ELSE IF "high" \in a.words THEN "medium-high"
  ELSE IF "low" \in a.words THEN "low"
  ELSE "medium"

escalate_two(sev) ==
  CASE sev = "low" -> "medium-high"
    [] sev = "medium" -> "high"
    [] OTHER -> "high"

escalate_lowering_high(sev) ==
  CASE sev = "low" -> "medium"
    [] sev = "medium" -> "medium-high"
    [] sev = "medium-high" -> "high"
    [] OTHER -> "medium-high"

\* the one-level raise for more than three affected components
escalate(sev) ==
  CASE sev = "low" -> "medium"
    [] sev = "medium" -> "medium-high"
    [] sev = "medium-high" -> "high"
    [] OTHER -> sev

\* ProblemCauseInferenceModule._determine_severity
determine_severity(a) ==
  LET comps == a.affected_components
      base == base_severity(a)
      raised == IF Len(comps) > 3 THEN escalate(base) ELSE base
  IN  IF comps = <<>> THEN base
      ELSE IF \E i \in 1..Len(comps) : is_core(comps[i]) THEN "high"
      ELSE raised

\* the severity shaping applied to sev_in
DetermineSeverity ==
  /\ pc = "shape_severity"
  /\ severity' = determine_severity(sev_in)
  /\ pc' = "severity_shaped"
  /\ UNCHANGED <<pipeVars, catVars, cqVars, enhVars, rpVars, sev_in, log_in,
                 key_events, concVars>>

(* ======================= log extraction ======================= *)

\* lengths of the log text: empty, short, below, at and above the prompt limit
LogLengths == {0, 1, PromptLogLimit - 1, PromptLogLimit, PromptLogLimit + 1}

\* what generate_with_retry returned: None, text that is not JSON, or a JSON
\* array of some number of events
LogReplies ==
  [kind : {None, "text_nonjson"}, events : {0}]
    \cup [kind : {"text_good"}, events : 0..MaxEvents]

LogInputs == [length : LogLengths, reply : LogReplies]

NoLogInput == [length |-> 0, reply |-> [kind |-> None, events |-> 0]]

NoEvents == [called |-> FALSE, prompt_log |-> 0, raised |-> FALSE, events |-> 0]

\* ProblemCauseInferenceModule._extract_key_log_events: whether the model
\* was called, how much of the log the prompt held, whether json.loads
\* raised past the handler, and how many events are returned
extract_key_log_events(l) ==
  IF l.length = 0 THEN NoEvents
  ELSE [called |-> TRUE,
        prompt_log |-> IF l.length > PromptLogLimit THEN PromptLogLimit ELSE l.length,
        raised |-> (json_loads(l.reply.kind) = "TypeError"),
        events |-> IF json_loads(l.reply.kind) = "parsed" THEN l.reply.events ELSE 0]

\* the extraction applied to log_in
ExtractKeyLogEvents ==
  /\ pc = "extract_log"
  /\ key_events' = extract_key_log_events(log_in)
  /\ pc' = "log_extracted"
  /\ UNCHANGED <<pipeVars, catVars, cqVars, enhVars, rpVars, sev_in, severity,
                 log_in, concVars>>

(* ======================= concurrent requests ======================= *)

\* the requests in flight on the module-level analysis_engine
ReqIds == {"r1", "r2"}

\* the inputs a concurrent request can carry
ConcInputs == {{"error_message"}, {"code_snippet"}, {"error_message", "log_info"}}

\* what generate_with_retry can return to a call site
ConcReplies == {None, "text_good", "text_nonjson"}

\* what the knowledge base can do on a query
ConcKbEvents == {"exception", "ok_results"}

Unset == "unset"

\* the locals of one call of analyze: its position, its input_data, the
\* result under construction, and the replies it was given so far
NewRequest(inp, empty) ==
  [pc |-> "error_gate", inputs |-> inp, log_empty |-> empty,
   replies |-> [s \in LLMSites |-> Unset], kb |-> Unset, syntax_out |-> Unset,
   analyses |-> [k \in AnalysisKeys |-> NoAnalysis],
   components_used |-> <<>>, similar_bugs |-> 0,
   summary |-> NoSummary, error |-> NoError]

\* the except block of analyze, on the locals of the call
local_fault(l, stage, site) ==
  [l EXCEPT !.error = [present |-> TRUE, stage |-> stage, site |-> site],
            !.pc = "done"]

\* a stage returned to the call
local_done(l, stage, output, next) ==
  [l EXCEPT !.analyses[StageKey(stage)] = output,
            !.components_used = Append(@, stage),
            !.pc = next]

\* one step of a call of analyze on its locals l: the next gate, or the
\* return of the model call (reply rep) or of the lookup (event kev) it waits
\* for; flags is self.analysis_pipeline as read at that moment
analyze_step(l, rp, kev, flags) ==
  LET m == IF l.pc \in LLMSites THEN [l EXCEPT !.replies[l.pc] = rp] ELSE l
  IN  CASE l.pc = "error_gate" ->
             [l EXCEPT !.pc = IF "error_message" \in l.inputs /\ flags["error_analysis"]
                                THEN "error_parse" ELSE "code_gate"]
        [] l.pc = "error_parse" ->
             LET r == llm_based_parsing(rp)
             IN  IF r.raised \/ r.out = "nondict"
                   THEN local_fault(m, "ErrorMessageParser", "error_parse")
                   ELSE local_done(m, "ErrorMessageParser",
                                   error_parse_output(r.out, FALSE), "code_gate")
        [] l.pc = "code_gate" ->
             [l EXCEPT !.pc = IF "code_snippet" \in l.inputs /\ flags["code_analysis"]
                                THEN "code_syntax" ELSE "kb_lookup"]
        [] l.pc = "code_syntax" ->
             LET r == parse_reply(rp)
             IN  IF r.raised
                   THEN local_fault(m, "CodeAnalyzer", "code_syntax")
                   ELSE [m EXCEPT !.syntax_out = r.out, !.pc = "code_semantics"]
        [] l.pc = "code_semantics" ->
             LET r == parse_reply(rp)
             IN  IF r.raised
                   THEN local_fault(m, "CodeAnalyzer", "code_semantics")
                 ELSE IF l.syntax_out = "nondict"
                   THEN local_fault(m, "CodeAnalyzer", "code_syntax")
                 ELSE IF r.out = "nondict"
                   THEN local_fault(m, "CodeAnalyzer", "code_semantics")
                 ELSE local_done(m, "CodeAnalyzer",
                                 code_analysis_output(l.syntax_out, r.out, FALSE),
                                 "kb_lookup")
        [] l.pc = "kb_lookup" ->
             IF flags["similar_bugs_lookup"]
               THEN [l EXCEPT !.kb = kev,
                              !.similar_bugs = query_similar_bugs(kev),
                              !.components_used =
                                 IF query_similar_bugs(kev) > 0
                                   THEN Append(@, "BugKnowledgeBaseClient") ELSE @,
                              !.pc = "rc_gate"]
               ELSE [l EXCEPT !.pc = "rc_gate"]
        [] l.pc = "rc_gate" ->
             [l EXCEPT !.pc = IF ~flags["root_cause_analysis"] THEN "sol_gate"
                              ELSE IF extracts_log_events(l.inputs, l.log_empty)
                                THEN "log_extract" ELSE "root_cause"]
        [] l.pc = "log_extract" ->
             LET r == parse_reply(rp)
             IN  IF r.raised
                   THEN local_fault(m, "ProblemCauseInferenceModule", "log_extract")
                   ELSE [m EXCEPT !.pc = "root_cause"]
        [] l.pc = "root_cause" ->
             LET r == parse_reply(rp)
             IN  IF r.raised \/ r.out = "nondict"
                   THEN local_fault(m, "ProblemCauseInferenceModule", "root_cause")
                   ELSE local_done(m, "ProblemCauseInferenceModule",
                                   root_cause_output(r.out), "sol_gate")
        [] l.pc = "sol_gate" ->
             [l EXCEPT !.pc = IF flags["solution_generation"]
                                THEN "solution" ELSE "summarize"]
        [] l.pc = "solution" ->
             LET r == parse_reply(rp)
             IN  IF r.raised \/ r.out = "nondict"
                   THEN local_fault(m, "FixSuggestionGenerator", "solution")
                   ELSE local_done(m, "FixSuggestionGenerator",
                                   solution_output(r.out), "summarize")
        [] l.pc = "summarize" ->
             [l EXCEPT !.summary = generate_analysis_summary(l.analyses),
                       !.pc = "done"]
        [] OTHER -> l

flags_cleared_after_fault(flags, l) ==
  IF l.error.present THEN [flags EXCEPT !["solution_generation"] = FALSE] ELSE flags

\* self.analysis_pipeline after a step of a call with locals l: analyze and
\* the stages only read it
flags_after_step(flags, l) == flags

\* request r takes its next step on the shared engine
RequestStep(r) ==
  /\ pc = "serving"
  /\ req[r].pc # "done"
  /\ \E rp \in IF req[r].pc \in LLMSites THEN ConcReplies ELSE {Unset},
        kev \in IF req[r].pc = "kb_lookup" THEN ConcKbEvents ELSE {Unset} :
       LET l == analyze_step(req[r], rp, kev, analysis_pipeline)
       IN  /\ req' = [req EXCEPT ![r] = l]
           /\ analysis_pipeline' = flags_after_step(analysis_pipeline, l)
  /\ UNCHANGED <<clientVars, inputs, log_empty, error_type_known, reply_has_bugs,
                 retryVars, siteVars, resultVars, meterVars,
                 catVars, cqVars, enhVars, rpVars, sevVars, pc>>

\* the call of analyze with locals l run alone to its return, on an engine
\* as __init__ built it, given the replies and the lookup event of script
RECURSIVE run_alone(_, _)
run_alone(l, script) ==
  IF l.pc = "done" THEN l
  ELSE run_alone(analyze_step(l,
                              IF l.pc \in LLMSites THEN script.replies[l.pc] ELSE Unset,
                              IF l.pc = "kb_lookup" THEN script.kb ELSE Unset,
                              analysis_pipeline_init),
                 script)

(* ======================= specifications ======================= *)

AllSites == LLMSites \cup {ClientSite}

InitClient ==
  /\ provider_type \in ProviderTypes
  /\ provider = LLMClient_init(provider_type)
  /\ sdk_available \in BOOLEAN

InitRetry ==
  /\ llm = Pending
  /\ attempt = 0
  /\ attemptLog = <<>>
  /\ lastEv = "none"

InitSites ==
  /\ called = {}
  /\ siteRes = [s \in AllSites |-> "unset"]
  /\ siteOut = [s \in AllSites |-> "unset"]

\* the result structure analyze starts from
InitResult ==
  /\ analyses = [k \in AnalysisKeys |-> NoAnalysis]
  /\ components_used = <<>>
  /\ similar_bugs = 0
  /\ summary = NoSummary
  /\ error = NoError
  /\ duration_set = FALSE
  /\ invoked = <<>>

InitNoRequest ==
  /\ inputs = {}
  /\ log_empty = FALSE
  /\ error_type_known = FALSE
  /\ reply_has_bugs = FALSE
  /\ analysis_pipeline = analysis_pipeline_init

NoArgs == [passed |-> FALSE]

\* nothing was called or passed yet; m tells whether provider calls are counted
InitMeter(m) ==
  /\ gwr_calls = [s \in AllSites |-> 0]
  /\ provider_calls = 0
  /\ metering = m
  /\ received = [root_cause |-> NoArgs, solution |-> NoArgs]
  /\ kb_response = "off"

InitNoCat ==
  /\ cat_in = NoCatInput
  /\ categories = NoCategories
  /\ cat_done = FALSE

InitNoSug ==
  /\ sug_in = NoSugInput
  /\ suggestions = <<>>

InitNoCq ==
  /\ cq_in = NoCqInput
  /\ cq_score = 0
  /\ InitNoSug

InitNoEnh ==
  /\ enh_in = NoEnhInput
  /\ enh_out = NoSolution

InitNoRp ==
  /\ raw_error = <<>>
  /\ basic_parsed = NoParsed
  /\ llm_parsed = <<>>
  /\ parsed_error = <<>>
  /\ processed = NoProcessed

InitNoLog ==
  /\ log_in = NoLogInput
  /\ key_events = NoEvents

InitNoSev ==
  /\ sev_in = NoSevInput
  /\ severity = "unset"
  /\ InitNoLog

InitNoConc == req = <<>>

\* a pipeline or client run: the stand-alone functions are not exercised
InitPipelineOnly ==
  InitNoCat /\ InitNoCq /\ InitNoEnh /\ InitNoRp /\ InitNoSev /\ InitNoConc

\* a run of one stand-alone function: the engine is built and idle
InitIdleEngine ==
  /\ provider_type = DefaultProviderType
  /\ provider = LLMClient_init(provider_type)
  /\ sdk_available = FALSE
  /\ max_retries = DefaultMaxRetries
  /\ InitNoRequest
  /\ InitRetry /\ InitSites /\ InitResult /\ InitMeter(FALSE)

\* one request enters AnalysisEngine.analyze of an engine built from the
\* default configuration (the provider variants are explored by SpecClient)
Init ==
  /\ provider_type = DefaultProviderType
  /\ provider = LLMClient_init(provider_type)
  /\ sdk_available = FALSE
  /\ max_retries = DefaultMaxRetries
  /\ inputs \in SUBSET (RecognizedKeys \cup OtherKeys)
  /\ log_empty \in BOOLEAN
  /\ ("log_info" \notin inputs => ~log_empty)
  /\ error_type_known \in BOOLEAN
  /\ ("error_message" \notin inputs => ~error_type_known)
  /\ reply_has_bugs \in BOOLEAN
  /\ ("code_snippet" \notin inputs => ~reply_has_bugs)
  /\ analysis_pipeline = analysis_pipeline_init
  /\ InitRetry /\ InitSites /\ InitResult /\ InitMeter(FALSE)
  /\ InitPipelineOnly
  /\ pc = "error_gate"

Next ==
  \/ EnterErrorParse
  \/ Generate
  \/ ErrorParseFinish
  \/ EnterCodeAnalyze
  \/ SyntaxFinish
  \/ SemanticsFinish
  \/ SimilarBugLookup
  \/ EnterRootCause
  \/ LogExtractFinish
  \/ RootCauseFinish
  \/ EnterSolution
  \/ SolutionFinish
  \/ Summarize

Spec == Init /\ [][Next]_vars

\* a request with all four inputs enters analyze and its provider calls are
\* counted (a request with fewer inputs runs a subset of the same call
\* sites); scheduling
\* is that of one sequential call, which takes its next step whenever it has
\* one
InitBudget ==
  /\ provider_type = DefaultProviderType
  /\ provider = LLMClient_init(provider_type)
  /\ sdk_available = FALSE
  /\ max_retries = DefaultMaxRetries
  /\ inputs = RecognizedKeys
  /\ log_empty \in BOOLEAN
  /\ error_type_known = FALSE
  /\ reply_has_bugs = FALSE
  /\ analysis_pipeline = analysis_pipeline_init
  /\ InitRetry /\ InitSites /\ InitResult /\ InitMeter(TRUE)
  /\ InitPipelineOnly
  /\ pc = "error_gate"

SpecBudget == InitBudget /\ [][Next]_vars /\ WF_vars(Next)

\* a request with all four inputs enters analyze and what the knowledge base
\* did on its query is recorded
InitKb ==
  /\ provider_type = DefaultProviderType
  /\ provider = LLMClient_init(provider_type)
  /\ sdk_available = FALSE
  /\ max_retries = DefaultMaxRetries
  /\ inputs = RecognizedKeys
  /\ log_empty \in BOOLEAN
  /\ error_type_known = FALSE
  /\ reply_has_bugs = FALSE
  /\ analysis_pipeline = analysis_pipeline_init
  /\ InitRetry /\ InitSites /\ InitResult
  /\ gwr_calls = [s \in AllSites |-> 0]
  /\ provider_calls = 0
  /\ metering = FALSE
  /\ received = [root_cause |-> NoArgs, solution |-> NoArgs]
  /\ kb_response = "unset"
  /\ InitPipelineOnly
  /\ pc = "error_gate"

SpecKb == InitKb /\ [][Next]_vars

\* the names of the pipeline-level flags
PipelineFlags == DOMAIN analysis_pipeline_init

\* the inputs of the requests sent to an engine whose flags were changed
GateInputs == {{}, {"error_message"}, {"code_snippet"},
               {"error_message", "code_snippet"}, {"code_snippet", "log_info"}}

\* a request enters analyze of an engine whose analysis_pipeline was set by
\* its owner to any combination of flags after construction
InitGate ==
  /\ provider_type = DefaultProviderType
  /\ provider = LLMClient_init(provider_type)
  /\ sdk_available = FALSE
  /\ max_retries = DefaultMaxRetries
  /\ inputs \in GateInputs
  /\ log_empty = FALSE
  /\ error_type_known \in BOOLEAN
  /\ ("error_message" \notin inputs => ~error_type_known)
  /\ reply_has_bugs \in BOOLEAN
  /\ ("code_snippet" \notin inputs => ~reply_has_bugs)
  /\ analysis_pipeline \in [PipelineFlags -> BOOLEAN]
  /\ InitRetry /\ InitSites /\ InitResult /\ InitMeter(FALSE)
  /\ InitPipelineOnly
  /\ pc = "error_gate"

SpecGate == InitGate /\ [][Next]_vars

\* generate_with_retry called on its own, with any max_retries
InitClientOnly ==
  /\ InitClient
  /\ max_retries \in 0..MaxRetriesBound
  /\ InitNoRequest
  /\ InitRetry /\ InitSites /\ InitResult /\ InitMeter(FALSE)
  /\ InitPipelineOnly
  /\ pc = ClientSite

NextClient == Generate \/ ClientReturn

SpecClient == InitClientOnly /\ [][NextClient]_vars

\* _categorize_potential_causes applied to any integrated_info
InitCat ==
  /\ InitIdleEngine
  /\ InitNoCq /\ InitNoEnh /\ InitNoRp /\ InitNoSev /\ InitNoConc
  /\ cat_in \in CatInputs
  /\ categories = NoCategories
  /\ cat_done = FALSE
  /\ pc = "categorize"

NextCat == Categorize

SpecCat == InitCat /\ [][NextCat]_vars

\* _evaluate_code_quality applied to any pair of phase outputs
InitCq ==
  /\ InitIdleEngine
  /\ InitNoCat /\ InitNoEnh /\ InitNoRp /\ InitNoSev /\ InitNoConc
  /\ cq_in \in CqInputs
  /\ cq_score = 0
  /\ InitNoSug
  /\ pc = "evaluate"

NextCq == EvaluateCodeQuality

SpecCq == InitCq /\ [][NextCq]_vars

\* generate_solution from the reply of its model call on, for any reply
InitEnh ==
  /\ InitIdleEngine
  /\ InitNoCat /\ InitNoCq /\ InitNoRp /\ InitNoSev /\ InitNoConc
  /\ enh_in \in EnhInputs
  /\ enh_out = NoSolution
  /\ pc = "enhance"

NextEnh == EnhanceSolution \/ EnhanceAgain

SpecEnh == InitEnh /\ [][NextEnh]_vars

\* _rule_based_parsing applied to any error text
InitRp ==
  /\ InitIdleEngine
  /\ InitNoCat /\ InitNoCq /\ InitNoEnh /\ InitNoSev /\ InitNoConc
  /\ raw_error \in ErrorTexts
  /\ basic_parsed = NoParsed
  /\ llm_parsed = <<>>
  /\ parsed_error = <<>>
  /\ processed = NoProcessed
  /\ pc = "rule_parse"

NextRp == RuleBasedParse

SpecRp == InitRp /\ [][NextRp]_vars

\* _generate_improvement_suggestions applied to phase outputs with any
\* numbers of findings
InitSug ==
  /\ InitIdleEngine
  /\ InitNoCat /\ InitNoEnh /\ InitNoRp /\ InitNoSev /\ InitNoConc
  /\ cq_in = NoCqInput
  /\ cq_score = 0
  /\ sug_in \in SugInputs
  /\ suggestions = <<>>
  /\ pc = "suggest"

NextSug == GenerateImprovementSuggestions

SpecSug == InitSug /\ [][NextSug]_vars

\* _extract_key_log_events applied to a log text, with any reply
InitLog ==
  /\ InitIdleEngine
  /\ InitNoCat /\ InitNoCq /\ InitNoEnh /\ InitNoRp /\ InitNoConc
  /\ sev_in = NoSevInput
  /\ severity = "unset"
  /\ log_in \in LogInputs
  /\ key_events = NoEvents
  /\ pc = "extract_log"

NextLog == ExtractKeyLogEvents

SpecLog == InitLog /\ [][NextLog]_vars

\* parse_error applied to an error text, with any mapping returned by the
\* model-based parsing
InitPe ==
  /\ InitIdleEngine
  /\ InitNoCat /\ InitNoCq /\ InitNoEnh /\ InitNoSev /\ InitNoConc
  /\ raw_error \in ParseErrorTexts
  /\ basic_parsed = NoParsed
  /\ llm_parsed \in LlmParsed
  /\ parsed_error = <<>>
  /\ processed = NoProcessed
  /\ pc = "rule_parse"

NextPe == RuleBasedParse \/ MergeParsed

SpecPe == InitPe /\ [][NextPe]_vars

\* the input layer's ErrorMessageProcessor applied to an error text
InitIl ==
  /\ InitIdleEngine
  /\ InitNoCat /\ InitNoCq /\ InitNoEnh /\ InitNoSev /\ InitNoConc
  /\ raw_error \in ErrorTexts
  /\ basic_parsed = NoParsed
  /\ llm_parsed = <<>>
  /\ parsed_error = <<>>
  /\ processed = NoProcessed
  /\ pc = "process"

NextIl == ProcessErrorMessage

SpecIl == InitIl /\ [][NextIl]_vars

\* _determine_severity applied to any arguments
InitSev ==
  /\ InitIdleEngine
  /\ InitNoCat /\ InitNoCq /\ InitNoEnh /\ InitNoRp /\ InitNoConc
  /\ sev_in \in SevInputs
  /\ severity = "unset"
  /\ InitNoLog
  /\ pc = "shape_severity"

NextSev == DetermineSeverity

SpecSev == InitSev /\ [][NextSev]_vars

\* two requests enter analyze of the shared engine at the same time; their
\* steps interleave in any order
InitConc ==
  /\ provider_type = DefaultProviderType
  /\ provider = LLMClient_init(provider_type)
  /\ sdk_available = FALSE
  /\ max_retries = DefaultMaxRetries
  /\ InitNoRequest
  /\ InitRetry /\ InitSites /\ InitResult /\ InitMeter(FALSE)
  /\ InitNoCat /\ InitNoCq /\ InitNoEnh /\ InitNoRp /\ InitNoSev
  /\ req \in [ReqIds -> {NewRequest(i, FALSE) : i \in ConcInputs}]
  /\ pc = "serving"

NextConc == \E r \in ReqIds : RequestStep(r)

SpecConc == InitConc /\ [][NextConc]_vars

(* ======================= properties ======================= *)

LastAttempt == attemptLog[Len(attemptLog)]

NoRecognizedKey == inputs \cap RecognizedKeys = {}

\* C1: a request with none of the four recognized input keys makes no model
\* call and returns with an empty analyses mapping.
C1_NoInputNoWork ==
  NoRecognizedKey =>
    /\ called = {}
    /\ \A k \in AnalysisKeys : ~analyses[k].present

\* C2: generate_with_retry makes at most max_retries + 1 provider calls, every
\* call before the last one returned failure or empty text, the first
\* non-empty result is what it returns, and it returns None exactly when all
\* max_retries + 1 calls returned failure or empty text.
C2_RetryBound ==
  /\ Len(attemptLog) <= max_retries + 1
  /\ \A i \in 1..(Len(attemptLog) - 1) : ~Truthy(attemptLog[i])
  /\ (Len(attemptLog) > 0 /\ Truthy(LastAttempt) => llm = LastAttempt)
  /\ (llm \in Texts => Len(attemptLog) > 0 /\ LastAttempt = llm)
  /\ (llm = None <=>
        /\ Len(attemptLog) = max_retries + 1
        /\ \A i \in 1..Len(attemptLog) : ~Truthy(attemptLog[i]))

\* with max_retries = 2 the third call succeeds after two failures
C2_Witness ==
  /\ pc = "client_done"
  /\ max_retries = 2
  /\ attemptLog = <<None, EmptyText, "text_good">>
  /\ llm = "text_good"

\* C3: when generate_with_retry returns None at any call site, no error
\* reaches the result and the pipeline runs to its summary.
C3_FailureAbsorbed ==
  \A s \in LLMSites :
    siteRes[s] = None => /\ ~error.present
                         /\ (pc = "done" => summary.present)

\* C4: for every provider variant a network exception, a non-200 status and a
\* payload without the expected shape all give None, and no exception leaves
\* generate_text.
C4_FailureToNone ==
  /\ \A i \in 1..Len(attemptLog) : attemptLog[i] # Raised
  /\ llm # Raised
  /\ (Len(attemptLog) > 0 /\ lastEv \in FailureEvents => LastAttempt = None)

\* the Anthropic provider got a payload without content[0].text
C4_Witness ==
  /\ provider = "anthropic"
  /\ lastEv = "bad_shape"
  /\ Len(attemptLog) > 0
  /\ LastAttempt = None

\* C5 as stated: every value generate returns is a non-empty text or None.
C5_GatewayOutcome ==
  \A i \in 1..Len(attemptLog) : attemptLog[i] \in Texts \cup {None}

\* C5 as amended: generate_with_retry returns a non-empty text or None; a 200
\* response with empty content comes out of generate as the empty string and
\* counts as a failed attempt of generate_with_retry.
C5_ClientOutcome ==
  /\ llm \in Texts \cup {None, Pending}
  /\ (Len(attemptLog) > 0 /\ lastEv = "empty" =>
        /\ LastAttempt = EmptyText
        /\ llm \in {None, Pending})

\* the last of the attempts got empty content and the client returned None
C5_Witness ==
  /\ pc = "client_done"
  /\ lastEv = "empty"
  /\ LastAttempt = EmptyText
  /\ llm = None

C7_FaultContained ==
  error.present =>
    /\ pc = "done"
    /\ duration_set
    /\ Len(invoked) > 0
    /\ invoked[Len(invoked)] = error.stage
    /\ ~analyses[StageKey(error.stage)].present
    /\ \A i \in 1..Len(components_used) : components_used[i] # error.stage
    /\ ~summary.present
    /\ \A i \in 1..(Len(invoked) - 1) :
         invoked[i] # "BugKnowledgeBaseClient" =>
           /\ analyses[StageKey(invoked[i])].present
           /\ \E j \in 1..Len(components_used) : components_used[j] = invoked[i]

\* the solution stage faulted after three stages had completed
C7_Witness ==
  /\ error.present
  /\ error.stage = "FixSuggestionGenerator"
  /\ analyses["error_analysis"].present
  /\ analyses["code_analysis"].present
  /\ analyses["root_cause"].present

\* C8 as stated: every returned result has its metadata and its summary.
C8_AlwaysComplete ==
  pc = "done" => /\ duration_set
                 /\ summary.present

\* C8 as amended: every returned result has analyses and metadata; the
\* summary is present exactly when the result carries no error.
C8_CompleteUnlessFault ==
  pc = "done" =>
    /\ duration_set
    /\ DOMAIN analyses = AnalysisKeys
    /\ (summary.present <=> ~error.present)

\* a faulted request returned with partial analyses and without summary
C8_Witness ==
  /\ pc = "done"
  /\ error.present
  /\ ~summary.present
  /\ analyses["root_cause"].present

\* C9: root_cause_identified is set exactly when the root cause stage ran and
\* its root cause is not the fallback of a failed decode.
C9_RootCauseFlag ==
  summary.present =>
    (summary.root_cause_identified <=>
       /\ analyses["root_cause"].present
       /\ analyses["root_cause"].root_cause # RootCauseFallback)

RawTotal == cat_total(unnormalized(cat_in))

Abs(x) == IF x < 0 THEN -x ELSE x

\* C10: the four scores sum to 1.0 within 1e-6 with each in [0,1], or are
\* each exactly 0.25 when every raw increment is zero; the step makes no
\* model call.
C10_ScoresNormalized ==
  cat_done =>
    /\ called = {}
    /\ (RawTotal > 0 =>
          /\ Abs(cat_total(categories) - FloatScale) <= Epsilon
          /\ \A c \in CatNames : categories[c] >= 0 /\ categories[c] <= FloatScale)
    /\ (RawTotal = 0 => \A c \in CatNames : categories[c] = FloatScale \div 4)

\* an IndexError text with one logic bug and one security concern
C10_Witness ==
  /\ cat_done
  /\ cat_in.index_or_key
  /\ cat_in.logic_bugs = 1
  /\ cat_in.security = 1
  /\ categories["logic_issues"] > categories["data_issues"]
  /\ categories["data_issues"] > categories["system_issues"]
  /\ categories["system_issues"] > categories["code_issues"]
  /\ categories["code_issues"] > 0

\* C11: for every pair of phase outputs the code quality score is an integer
\* from 1 to 10.
C11_QualityInRange ==
  pc = "evaluated" => cq_score \in 1..10

\* complexity 10, poor structure and two severe logic issues: the unrounded
\* score is 0.5, round() gives 0 and the clamp raises it to 1
C11_Witness ==
  /\ pc = "evaluated"
  /\ cq_in.complexity = 10
  /\ quality_tenths(cq_in) = 5
  /\ round_tenths(quality_tenths(cq_in)) = 0
  /\ cq_score = 1

\* the code changes of the decoded reply with every field present
ReplyChangesFilled ==
  LET ch == enh_in.reply.solution.code_changes
  IN  [i \in 1..Len(ch) |-> enhanced_change(ch[i])]

DiffersAndNonEmpty(c) ==
  /\ c.original_code # ""
  /\ c.fixed_code # ""
  /\ c.original_code # c.fixed_code

DiffersAfterStrip(c) ==
  /\ strip(c.original_code) # ""
  /\ strip(c.fixed_code) # ""
  /\ strip(c.original_code) # strip(c.fixed_code)

\* C12 as stated: of the code changes of a decoded solution exactly those are
\* kept whose original and fixed texts are both non-empty and differ, and
\* enhancing the output again changes nothing.
C12_FilterExact ==
  /\ [](pc = "enhanced" /\ enh_in.reply.kind = "text_good" =>
          enh_out.code_changes = SelectSeq(ReplyChangesFilled, DiffersAndNonEmpty))
  /\ [][pc = "enhanced" => enh_out' = enh_out]_vars

\* C12 as amended: exactly those are kept whose original and fixed texts,
\* with leading and trailing whitespace removed, are both non-empty and
\* differ; enhancing the output again changes nothing.
C12_FilterStripped ==
  /\ [](pc = "enhanced" /\ enh_in.reply.kind = "text_good" =>
          enh_out.code_changes = SelectSeq(ReplyChangesFilled, DiffersAfterStrip))
  /\ [][pc = "enhanced" => enh_out' = enh_out]_vars

\* a reply with a real change and one that differs by blanks only, enhanced
\* twice: the real change alone is kept
C12_Witness ==
  /\ pc = "enhanced_again"
  /\ enh_in.reply.kind = "text_good"
  /\ Len(enh_in.reply.solution.code_changes) = 2
  /\ enh_in.reply.solution.code_changes[1].original_code = "a"
  /\ enh_in.reply.solution.code_changes[1].fixed_code = "b"
  /\ enh_in.reply.solution.code_changes[2].original_code = " a "
  /\ enh_in.reply.solution.code_changes[2].fixed_code = "a"
  /\ Len(enh_out.code_changes) = 1
  /\ enh_out.code_changes[1].fixed_code = "b"

\* C13: when the solution reply cannot be decoded the enhancement is skipped:
\* the solution is the fallback with the raw text and empty fix_steps,
\* code_changes, prevention_tips and alternative_solutions.
C13_FallbackUntouched ==
  pc \in {"enhanced", "enhanced_again"} /\ enh_in.reply.kind = "text_nonjson" =>
    /\ enh_out = solution_fallback("text_nonjson")
    /\ enh_out.raw_solution = "text_nonjson"
    /\ enh_out.fix_steps = <<>>
    /\ enh_out.code_changes = <<>>
    /\ enh_out.prevention_tips = <<>>
    /\ enh_out.alternative_solutions = <<>>

\* an undecodable reply went through generate_solution
C13_Witness ==
  /\ pc = "enhanced"
  /\ enh_in.reply.kind = "text_nonjson"
  /\ enh_out.raw_solution = "text_nonjson"

ProcessDataFrame == [file |-> "app.py", line |-> 21, function |-> "process_data"]

HasLine(l) == \E i \in 1..Len(raw_error) : raw_error[i] = l

InStack(f) ==
  \E i \in 1..Len(basic_parsed.stack_trace) : basic_parsed.stack_trace[i] = f

\* the process_data frame is the last frame line of the text
ProcessDataFrameLast ==
  \E i \in 1..Len(raw_error) :
    /\ raw_error[i] = ProcessDataFrameLine
    /\ \A j \in (i + 1)..Len(raw_error) : raw_error[j].kind # "frame"

\* the first "<name>Error: <message>" line names ZeroDivisionError
FirstErrorIsZeroDivision ==
  \E i \in 1..Len(raw_error) :
    /\ raw_error[i] = ZeroDivisionLine
    /\ \A j \in 1..(i - 1) : ~(raw_error[j].name # Absent /\ raw_error[j].msg)

AnyCore ==
  \E i \in 1..Len(sev_in.affected_components) : is_core(sev_in.affected_components[i])

\* C16: more than 3 affected components raise a base severity of medium by
\* exactly one level, to medium-high; a core-system word in any affected
\* component name makes the severity high whatever the base severity and the
\* number of components.
C16_SeverityShaping ==
  pc = "severity_shaped" =>
    /\ (/\ Len(sev_in.affected_components) > 3
        /\ base_severity(sev_in) = "medium"
        /\ ~AnyCore
        => severity = "medium-high")
    /\ (AnyCore => severity = "high")

\* four plain components on a text without severity words
C16_Witness ==
  /\ pc = "severity_shaped"
  /\ sev_in.has_error
  /\ sev_in.words = {}
  /\ Len(sev_in.affected_components) = 4
  /\ ~AnyCore
  /\ severity = "medium-high"

\* the root cause stage was entered and its log processing is over
LogProcessingOver ==
  /\ received["root_cause"].passed
  /\ pc # "log_extract"

KeyEvents == key_log_events(inputs, log_empty, siteOut["log_extract"])

\* C15: an empty log text gives zero key events and no model call for the
\* log; a non-empty log text makes generate_with_retry run exactly once at
\* the log extraction site; a request without log_info makes it run there
\* not at all.
C15_LogExtraction ==
  /\ ("log_info" \in inputs /\ log_empty =>
        /\ gwr_calls["log_extract"] = 0
        /\ "log_extract" \notin called
        /\ siteRes["log_extract"] = "unset"
        /\ (LogProcessingOver => KeyEvents.present /\ KeyEvents.count = 0))
  /\ ("log_info" \in inputs /\ ~log_empty =>
        /\ gwr_calls["log_extract"] <= 1
        /\ (LogProcessingOver =>
              /\ gwr_calls["log_extract"] = 1
              /\ "log_extract" \in called
              /\ siteRes["log_extract"] # "unset"))
  /\ ("log_info" \notin inputs =>
        /\ gwr_calls["log_extract"] = 0
        /\ "log_extract" \notin called
        /\ ~KeyEvents.present)

\* a request with an empty log ran to its end: the root cause call was made,
\* the log extraction call was not
C15_Witness ==
  /\ pc = "done"
  /\ "log_info" \in inputs
  /\ log_empty
  /\ gwr_calls["root_cause"] = 1
  /\ gwr_calls["log_extract"] = 0
  /\ KeyEvents.count = 0

\* the component stages invoked, in order (the summary is no component)
InvokedComponents == SelectSeq(invoked, LAMBDA st : st # "Summary")

\* C17: components_used of a result returned without fault is exactly the
\* list of stages invoked for the request, in invocation order; the
\* similar-bug lookup is listed whenever the knowledge base was queried.
C17_ComponentsAreInvoked ==
  pc = "done" /\ ~error.present => components_used = InvokedComponents

FullRequest ==
  /\ {"error_message", "code_snippet"} \subseteq inputs
  /\ \A f \in DOMAIN analysis_pipeline : analysis_pipeline[f]

FullOrder ==
  <<"ErrorMessageParser", "CodeAnalyzer", "BugKnowledgeBaseClient",
    "ProblemCauseInferenceModule", "FixSuggestionGenerator", "Summary">>

\* a stage that was invoked has returned
Returned(st) ==
  CASE st = "BugKnowledgeBaseClient" -> pc # "kb_lookup"
    [] st = "Summary" -> summary.present
    [] OTHER -> analyses[StageKey(st)].present

\* C18: for a request with error_message and code_snippet and all flags set,
\* the stages are invoked once each in the order ErrorParse, CodeAnalyze,
\* SimilarBugLookup, RootCause, Solution, Summarize, each after its
\* predecessor returned; RootCause is passed the outputs of ErrorParse,
\* CodeAnalyze and the lookup, Solution the output of RootCause and the
\* lookup; without fault the result holds the four analyses and the summary.
C18_SequentialStages ==
  FullRequest =>
    /\ Len(invoked) <= Len(FullOrder)
    /\ \A i \in 1..Len(invoked) : invoked[i] = FullOrder[i]
    /\ \A i \in 1..(Len(invoked) - 1) : Returned(invoked[i])
    /\ (received["root_cause"].passed =>
          /\ received["root_cause"].error_analysis.present
          /\ received["root_cause"].error_analysis = analyses["error_analysis"]
          /\ received["root_cause"].code_analysis.present
          /\ received["root_cause"].code_analysis = analyses["code_analysis"]
          /\ received["root_cause"].similar_bugs = similar_bugs)
    /\ (received["solution"].passed =>
          /\ received["solution"].root_cause.present
          /\ received["solution"].root_cause = analyses["root_cause"]
          /\ received["solution"].similar_bugs = similar_bugs)
    /\ (pc = "done" /\ ~error.present =>
          /\ invoked = FullOrder
          /\ \A k \in AnalysisKeys : analyses[k].present
          /\ summary.present)

\* a full request ran through all six stages with a similar bug found
C18_Witness ==
  /\ pc = "done"
  /\ FullRequest
  /\ ~error.present
  /\ invoked = FullOrder
  /\ similar_bugs > 0
  /\ received["solution"].root_cause.root_cause = RootCauseGood
  /\ summary.solution_provided

\* number of call sites at which generate_with_retry was invoked
SitesExercised == Cardinality({s \in LLMSites : gwr_calls[s] > 0})

\* C19: one request invokes generate_with_retry at most once at each of the
\* six call sites: a completed error parsing made one invocation, a completed
\* code analysis two (syntax, semantics), a completed root cause stage one
\* plus one for the log exactly if the log text is non-empty, a completed
\* solution stage one; the request makes at most 6 * (max_retries + 1)
\* provider calls, and analyze terminates.
C19_CallBudget ==
  /\ [](/\ \A s \in LLMSites : gwr_calls[s] <= 1
         /\ SitesExercised <= 6
         /\ (analyses["error_analysis"].present => gwr_calls["error_parse"] = 1)
         /\ (analyses["code_analysis"].present =>
               gwr_calls["code_syntax"] = 1 /\ gwr_calls["code_semantics"] = 1)
         /\ (gwr_calls["code_semantics"] = 1 => siteRes["code_syntax"] # "unset")
         /\ (analyses["root_cause"].present =>
               /\ gwr_calls["root_cause"] = 1
               /\ gwr_calls["log_extract"] =
                    IF "log_info" \in inputs /\ ~log_empty THEN 1 ELSE 0)
         /\ (analyses["solution"].present => gwr_calls["solution"] = 1)
         /\ provider_calls <= SitesExercised * (max_retries + 1)
         /\ provider_calls <= 6 * (max_retries + 1))
  /\ <>(pc = "done")

\* all six sites were exercised and each needed its last attempt
C19_Witness ==
  /\ pc = "done"
  /\ ~error.present
  /\ SitesExercised = 6
  /\ provider_calls = 6 * (max_retries + 1)

\* what request r would return had it run alone with the replies it got
AloneResult(r) == run_alone(NewRequest(req[r].inputs, req[r].log_empty), req[r])

\* C20: under every interleaving of two requests on the shared engine each
\* returns what it would return running alone with the same model and
\* knowledge-base replies; no step changes the pipeline flags, the provider
\* configuration or a request's input_data, and every model call gets its
\* own reply.
C20_RequestsIndependent ==
  /\ [](\A r \in DOMAIN req :
           /\ analysis_pipeline = analysis_pipeline_init
           /\ (req[r].pc = "done" => req[r] = AloneResult(r)))
  /\ [][/\ analysis_pipeline' = analysis_pipeline
         /\ provider' = provider /\ provider_type' = provider_type
         /\ \A r \in DOMAIN req :
              /\ req'[r].inputs = req[r].inputs
              /\ req'[r].log_empty = req[r].log_empty
              /\ \A s \in LLMSites :
                   req[r].replies[s] # Unset => req'[r].replies[s] = req[r].replies[s]]_vars

\* both requests returned: one faulted in its code analysis, the other got a
\* full result for the same kind of input
C20_Witness ==
  /\ req # <<>>
  /\ req["r1"].pc = "done"
  /\ req["r2"].pc = "done"
  /\ req["r1"].inputs = {"code_snippet"}
  /\ req["r2"].inputs = {"code_snippet"}
  /\ req["r1"].error.present
  /\ ~req["r2"].error.present
  /\ req["r2"].summary.solution_provided

\* the knowledge base answered with a non-success status or the query raised
KbFailed == kb_response \in {"exception", "status_non200"}

PastRootCauseGate == pc \in {"log_extract", "root_cause", "sol_gate", "solution",
                             "summarize", "done"}

\* C21: after a lookup that met a non-success response or an exception the
\* similar-bug list is empty and the failure is not recorded as an error of
\* the request; the root cause stage is entered with an empty similar-bug
\* list, and so is the solution stage unless the root cause stage faulted.
C21_KbFailureAbsorbed ==
  KbFailed =>
    /\ similar_bugs = 0
    /\ "BugKnowledgeBaseClient" \notin {components_used[i] : i \in DOMAIN components_used}
    /\ (pc = "rc_gate" => ~error.present)
    /\ (error.present => error.stage \in {"ProblemCauseInferenceModule",
                                          "FixSuggestionGenerator"})
    /\ (PastRootCauseGate =>
          /\ received["root_cause"].passed
          /\ received["root_cause"].similar_bugs = 0)
    /\ (pc \in {"solution", "summarize"} \/ (pc = "done" /\ ~error.present) =>
          /\ received["solution"].passed
          /\ received["solution"].similar_bugs = 0)
    /\ (pc = "done" /\ ~error.present =>
          analyses["root_cause"].present /\ analyses["solution"].present)

\* the query raised, and the request still returned a root cause and a solution
C21_Witness ==
  /\ kb_response = "exception"
  /\ pc = "done"
  /\ ~error.present
  /\ analyses["root_cause"].present
  /\ analyses["solution"].present
  /\ received["solution"].similar_bugs = 0

\* the solution stage was invoked and returned
SolutionStageRan ==
  /\ "FixSuggestionGenerator" \in {invoked[i] : i \in DOMAIN invoked}
  /\ "FixSuggestionGenerator" \in {components_used[i] : i \in DOMAIN components_used}

\* C22: in the summary, solution_provided holds exactly when the solution
\* stage ran and the solution call's reply decoded (the solution is not the
\* raw-text fallback); the recommendation is the one for the solution if
\* solution_provided, else the one for the root cause if
\* root_cause_identified, else the one for the problem if
\* problem_identified, else manual review.
C22_SummaryPriority ==
  summary.present =>
    /\ (summary.solution_provided <=>
          SolutionStageRan /\ siteOut["solution"] = "parsed")
    /\ (summary.solution_provided => summary.recommendation = "apply_solution")
    /\ (~summary.solution_provided /\ summary.root_cause_identified =>
          summary.recommendation = "root_cause_identified")
    /\ (~summary.solution_provided /\ ~summary.root_cause_identified
          /\ summary.problem_identified =>
          summary.recommendation = "problem_identified")
    /\ (~summary.solution_provided /\ ~summary.root_cause_identified
          /\ ~summary.problem_identified =>
          summary.recommendation = "manual_review")

\* a root cause was identified and a decoded solution provided: the
\* recommendation is the one for the solution
C22_Witness ==
  /\ summary.present
  /\ summary.root_cause_identified
  /\ summary.solution_provided
  /\ summary.recommendation = "apply_solution"

\* the three lower priorities occur as well
C22_LowerPriorities ==
  /\ summary.present
  /\ ~summary.solution_provided
  /\ ~summary.root_cause_identified
  /\ summary.problem_identified
  /\ siteOut["solution"] = "fallback"

\* the flag that gates each component
StageFlag(st) ==
  CASE st = "ErrorMessageParser" -> "error_analysis"
    [] st = "CodeAnalyzer" -> "code_analysis"
    [] st = "BugKnowledgeBaseClient" -> "similar_bugs_lookup"
    [] st = "ProblemCauseInferenceModule" -> "root_cause_analysis"
    [] st = "FixSuggestionGenerator" -> "solution_generation"

GatedStages == {"ErrorMessageParser", "CodeAnalyzer", "BugKnowledgeBaseClient",
                "ProblemCauseInferenceModule", "FixSuggestionGenerator"}

Invoked(st) == st \in {invoked[i] : i \in DOMAIN invoked}

\* C25: a stage whose flag is off is never entered and leaves no entry in
\* analyses or components_used; the error parsing is entered only with an
\* error_message and the code analysis only with a code_snippet; a
\* downstream stage is passed null for the output of a skipped stage (the
\* empty list for a skipped lookup), and a request whose calls all returned
\* decodable text ends without error whatever was skipped.
C25_Gating ==
  /\ \A st \in GatedStages :
        ~analysis_pipeline[StageFlag(st)] =>
          /\ ~Invoked(st)
          /\ st \notin {components_used[i] : i \in DOMAIN components_used}
          /\ (st # "BugKnowledgeBaseClient" => ~analyses[StageKey(st)].present)
          /\ (st = "BugKnowledgeBaseClient" => similar_bugs = 0)
  /\ (Invoked("ErrorMessageParser") => "error_message" \in inputs)
  /\ (Invoked("CodeAnalyzer") => "code_snippet" \in inputs)
  /\ (received["root_cause"].passed =>
        /\ (~Invoked("ErrorMessageParser") =>
              received["root_cause"].error_analysis = NoAnalysis)
        /\ (~Invoked("CodeAnalyzer") =>
              received["root_cause"].code_analysis = NoAnalysis)
        /\ (~Invoked("BugKnowledgeBaseClient") =>
              received["root_cause"].similar_bugs = 0))
  /\ (received["solution"].passed =>
        /\ (~Invoked("ProblemCauseInferenceModule") =>
              received["solution"].root_cause = NoAnalysis)
        /\ (~Invoked("BugKnowledgeBaseClient") =>
              received["solution"].similar_bugs = 0))
  /\ (pc = "done" /\ (\A s \in called : siteRes[s] = "text_good") => ~error.present)

\* the error parsing and the root cause stage were switched off for a request
\* with an error_message: the solution stage got null and returned a solution
C25_Witness ==
  /\ pc = "done"
  /\ ~error.present
  /\ "error_message" \in inputs
  /\ ~analysis_pipeline["error_analysis"]
  /\ ~analysis_pipeline["root_cause_analysis"]
  /\ analysis_pipeline["solution_generation"]
  /\ ~Invoked("ErrorMessageParser")
  /\ received["solution"].passed
  /\ received["solution"].root_cause = NoAnalysis
  /\ analyses["solution"].present
  /\ ~analyses["solution"].raw_solution

\* C23: the mapping parse_error returns holds, for every key the model
\* returned, the model's value, also where the rule-based parsing has the
\* same key, and for every other rule-based key the rule-based value, and
\* no other key.
C23_LlmOverlay ==
  pc = "error_parsed" =>
    /\ DOMAIN parsed_error = DOMAIN basic_parsed \cup DOMAIN llm_parsed
    /\ \A k \in DOMAIN llm_parsed : parsed_error[k] = llm_parsed[k]
    /\ \A k \in DOMAIN basic_parsed \ DOMAIN llm_parsed :
          parsed_error[k] = basic_parsed[k]

\* the rules found a TypeError, the model returned another error_type and no
\* error_language: the result has the model's type and the rules' language
C23_Witness ==
  /\ pc = "error_parsed"
  /\ basic_parsed.error_type = "type"
  /\ basic_parsed.error_language = "python"
  /\ DOMAIN llm_parsed = {"error_type", "severity"}
  /\ parsed_error["error_type"] = "from_llm"
  /\ parsed_error["error_language"] = basic_parsed.error_language
  /\ parsed_error["severity"] = "from_llm"

\* the traceback of the test: header, frame at app.py line 42, code, frame
\* at app.py line 21, error line
TestTraceback ==
  /\ Len(raw_error) >= 4
  /\ raw_error[1] = HeaderLine
  /\ raw_error[Len(raw_error)] = ZeroDivisionLine
  /\ SelectSeq(raw_error, LAMBDA l : l.kind = "frame")
       = <<ModuleFrameLine, ProcessDataFrameLine>>
  /\ \A i \in 1..Len(raw_error) : raw_error[i].name \in {Absent, "ZeroDivisionError"}

\* C24: for a traceback with frames at app.py line 42 and then app.py line
\* 21 that ends in ZeroDivisionError: division by zero, process returns
\* category "exception", line 21, file "app.py" and the input as raw_content.
C24_ProcessesTraceback ==
  pc = "processed" /\ TestTraceback =>
    /\ processed.category = "exception"
    /\ processed.line = 21
    /\ processed.file = "app.py"
    /\ processed.raw_content = raw_error

\* the frame a Python frame line holds
PythonFrame(l) == [file |-> l.file, line |-> int(l.line), function |-> l.function]

\* the frame a JavaScript frame line holds
JsFrame(l) ==
  [function |-> l.function, file |-> l.file, line |-> int(l.line), column |-> 10]

PythonFrameLines == SelectSeq(raw_error, LAMBDA l : l.kind = "frame")

JsFrameLines == SelectSeq(raw_error, LAMBDA l : l.kind \in {"js_error_at", "js_frame"})

PythonStyle == HasLine(HeaderLine)

JsStyle ==
  /\ ~PythonStyle
  /\ JsFrameLines # <<>>
  /\ \E i \in 1..Len(raw_error) : raw_error[i].name \in {"TypeError", "ReferenceError"}

OneMore ==
  {[cq_in EXCEPT !.logic_issues = @ + 1],
   [cq_in EXCEPT !.logic_issues = @ + 1, !.severe_logic = @ + 1],
   [cq_in EXCEPT !.bugs = @ + 1],
   [cq_in EXCEPT !.security = @ + 1],
   [cq_in EXCEPT !.security = @ + 1, !.severe_security = @ + 1],
   [cq_in EXCEPT !.complexity = @ + 1]}

\* C30: with everything else fixed, one more logic issue (severe or not),
\* potential bug or security concern (severe or not), or a complexity score
\* higher by one, never gives a higher quality score.
C30_QualityMonotone ==
  pc = "evaluated" =>
    \A q \in OneMore : evaluate_code_quality(q) <= cq_score

\* a score strictly inside the range that one more potential bug, one more
\* point of complexity or one more severe security concern lowers
C30_Witness ==
  /\ pc = "evaluated"
  /\ cq_score = 5
  /\ cq_in.bugs = 1
  /\ evaluate_code_quality([cq_in EXCEPT !.bugs = @ + 1]) = 4
  /\ evaluate_code_quality([cq_in EXCEPT !.complexity = @ + 1]) = 4
  /\ evaluate_code_quality([cq_in EXCEPT !.security = @ + 1,
                                         !.severe_security = @ + 1]) = 4

\* the four levels, in rising order
SeverityLevels == <<"low", "medium", "medium-high", "high">>

Rank(sev) == CHOOSE i \in 1..Len(SeverityLevels) : SeverityLevels[i] = sev

\* C29: the severity returned is one of low, medium, medium-high, high; it
\* is never below the severity derived from the error text; and it is low
\* only if there are at most three affected components and none is a core
\* component.
C29_SeverityLevels ==
  pc = "severity_shaped" =>
    /\ \E i \in 1..Len(SeverityLevels) : SeverityLevels[i] = severity
    /\ Rank(severity) >= Rank(base_severity(sev_in))
    /\ (severity = "low" =>
          /\ Len(sev_in.affected_components) <= 3
          /\ ~AnyCore
          /\ base_severity(sev_in) = "low")

\* a text with a critical word and more than three plain components: the
\* severity stays high
C29_Witness ==
  /\ pc = "severity_shaped"
  /\ "critical" \in sev_in.words
  /\ Len(sev_in.affected_components) > 3
  /\ ~AnyCore
  /\ severity = "high"

\* a low severity survives up to three plain components
C29_LowKept ==
  /\ pc = "severity_shaped"
  /\ severity = "low"
  /\ Len(sev_in.affected_components) = 3

\* the list in generation order
Generated == collected_suggestions(sug_in)

InArea(seq, areas) == SelectSeq(seq, LAMBDA x : x.area \in areas)

Max(a, b) == IF a > b THEN a ELSE b

\* C27: a generated list of more than 10 suggestions is returned as all its
\* security entries, then all its bug-fix entries, then the first of its
\* other entries, in generation order, as far as the total stays at 10 (none
\* if security and bug-fix entries already are 10 or more); a generated list
\* of at most 10 is returned as it is.
C27_SuggestionLimit ==
  pc = "suggested" =>
    LET sec == sug_in.security
        bug == sug_in.bugs
        rest == SubSeq(suggestions, sec + bug + 1, Len(suggestions))
        others == InArea(Generated, {"syntax", "structure", "logic",
                                     "performance", "best_practice"})
    IN  /\ (Len(Generated) <= 10 => suggestions = Generated)
        /\ (Len(Generated) > 10 =>
              /\ Len(suggestions) = Max(10, sec + bug)
              /\ SubSeq(suggestions, 1, sec) = InArea(Generated, {"security"})
              /\ SubSeq(suggestions, sec + 1, sec + bug) = InArea(Generated, {"bug_fix"})
              /\ rest = SubSeq(others, 1, Len(rest)))

\* more than 10 generated, fewer than 10 of them security or bug-fix
\* entries: some of the others are kept and some dropped
C27_Witness ==
  /\ pc = "suggested"
  /\ Len(Generated) = 13
  /\ sug_in.security = 2
  /\ sug_in.bugs = 3
  /\ Len(suggestions) = 10
  /\ suggestions[1].area = "security"
  /\ suggestions[3].area = "bug_fix"
  /\ suggestions[6].area = "syntax"
  /\ \A i \in 1..10 : suggestions[i].area # "best_practice"

\* C28: for a non-empty log text and any reply, the extraction returns at
\* most 10 events.
C28_AtMostTenEvents ==
  pc = "log_extracted" /\ log_in.length > 0 => key_events.events <= 10

====
